---- MODULE Spec2Model ----
(***************************************************************************)
(* Signaling relay of the remote-desktop application: the in-memory        *)
(* session registry of src/main/main.js (the WebSocket server, lines       *)
(* 83-249).  One action per handler: 'connection', each case of the        *)
(* 'message' switch, and 'close'.  A handler runs to completion, so an     *)
(* action is the whole handler, its replies included.                      *)
(*                                                                         *)
(* Math.random() is an input of the handlers that call it: the generated   *)
(* session code and client id are drawn from the whole id set, a value     *)
(* already in use included, because the code does not look the value up    *)
(* before using it.  The values are interchangeable names, so the k-th     *)
(* generated value is one of the first k names of its table: a name        *)
(* generated before (a collision is possible) or the next new one.  For    *)
(* the same reason the ids a sender names in a message are the names       *)
(* generated so far and the next one, which stands for every id the        *)
(* registry never generated.                                               *)
(*                                                                         *)
(* A JavaScript Map is modelled as a function on its key set.  forEach     *)
(* visits the keys in insertion order; that order is not kept here, the    *)
(* loops of the close handler visit the keys in the order of the name     *)
(* tables.  Only the relative order of notifications sent by one close      *)
(* event depends on it.                                                    *)
(***************************************************************************)
EXTENDS Integers, Sequences, FiniteSets, TLC

\* ------------------------------------------------------------- bounds
MaxTransports == 3   \* ws connections the server accepts in a run
MaxRequests == 3     \* create-session requests plus join-session requests
                     \* that name a live session, handled in a run

SessionIdNames == <<"AAAA", "BBBB", "CCCC", "DDDD", "EEEE">>
ClientIdNames == <<"c1aaaaa", "c2bbbbb", "c3ccccc", "c4ddddd", "c5eeeee">>

\* ws objects, numbered in the order the server accepts them
Transports == 1..MaxTransports

undefined == "undefined"
host == "host"
SignalTypes == {"offer", "answer", "candidate"}

VARIABLES
  sessions,     \* Map sessionId -> {hostWs, pendingClients, approvedClients}
  wsClientId,   \* ws.clientId of every transport (undefined until a join)
  readyState,   \* "NONE" (not accepted yet), "OPEN", "CLOSED"
  event,        \* the event handled by the last step: [type, ws]
  sent,         \* what the last step passed to ws.send, in order: [to, msg]
  terminated,   \* history: session codes removed because their host closed
  creates,      \* history: create-session requests handled
  joins         \* history: join-session requests that named a live session

vars == <<sessions, wsClientId, readyState, event, sent, terminated,
          creates, joins>>

\* the participant's side
VARIABLES
  isHost,    \* the hook's isHost argument
  wiring,    \* who calls the hook: "subscribe" (SessionManagement.jsx:55-62)
             \* or "ipc" (the ipcListener effect, part_007:270-290)
  hook,      \* the hook's state, refs, RTCPeerConnection objects, suspended
             \* async calls and registered listeners (a record, see HookInit)
  arrivals,  \* history: signaling messages delivered so far
  uiCalls,   \* history: calls made by the page so far
  step       \* the event handled by the last step

orchVars == <<isHost, wiring, hook, arrivals, uiCalls, step>>

\* the remote control of the participant (useRemoteControl,
\* src/unnamed/part_002) and the version of setupDataChannel its data
\* channels are set up with
VARIABLES
  control,
  channelSetup
ctlVars == <<control, channelSetup>>

\* the signaling connection of the participant (WebSocketProvider,
\* src/unnamed/part_003): its refs, state, WebSocket objects and timers (a
\* record, see ProviderInit)
VARIABLES
  provider
provVars == <<provider>>

\* the host's page (SessionManagement.jsx) and its signaling transport: the
\* capture source, and the messages on their way between the page and the
\* registry (a record, see PageInit)
VARIABLES
  page
pageVars == <<page>>

allVars == <<vars, orchVars, ctlVars, provVars, pageVars>>

\* ------------------------------------------------------------- Map helpers
Has(m, k) == k \in DOMAIN m
Set(m, k, v) == [x \in DOMAIN m \cup {k} |-> IF x = k THEN v ELSE m[x]]
Delete(m, k) == [x \in DOMAIN m \ {k} |-> m[x]]
EmptyMap == [x \in {} |-> undefined]

RECURSIVE SeqOfNames(_, _)
\* the members of S in the order of the name table
SeqOfNames(names, S) ==
  IF names = <<>> THEN <<>>
  ELSE (IF Head(names) \in S THEN <<Head(names)>> ELSE <<>>)
       \o SeqOfNames(Tail(names), S)

Keys(m) == SeqOfNames(ClientIdNames, DOMAIN m)
SessionKeys == SeqOfNames(SessionIdNames, DOMAIN sessions)

Send(to, msg) == [to |-> to, msg |-> msg]

Min(a, b) == IF a < b THEN a ELSE b
\* the ids a message can name: those generated so far and one more
NamedSessionIds == {SessionIdNames[i] : i \in 1..Min(creates + 1, MaxRequests)}
NamedClientIds == {ClientIdNames[i] : i \in 1..Min(joins + 1, MaxRequests)}

NewSession(ws) ==
  [hostWs |-> ws, pendingClients |-> EmptyMap, approvedClients |-> EmptyMap]

RegistryInit ==
  /\ sessions = [x \in {} |-> NewSession(1)]
  /\ wsClientId = [w \in Transports |-> undefined]
  /\ readyState = [w \in Transports |-> "NONE"]
  /\ event = [type |-> "listen", ws |-> 0]
  /\ sent = <<>>
  /\ terminated = {}
  /\ creates = 0
  /\ joins = 0

\* wss.on('connection'): a new ws object, no clientId on it
Connection(ws) ==
  /\ readyState[ws] = "NONE"
  /\ \A w \in Transports : w < ws => readyState[w] /= "NONE"
  /\ readyState' = [readyState EXCEPT ![ws] = "OPEN"]
  /\ event' = [type |-> "connection", ws |-> ws]
  /\ sent' = <<>>
  /\ UNCHANGED <<sessions, wsClientId, terminated, creates, joins>>
  /\ UNCHANGED orchVars
  /\ UNCHANGED ctlVars
  /\ UNCHANGED provVars
  /\ UNCHANGED pageVars

\* texts that are not a message: JSON.parse throws on the first, the
\* second parses to null and data.type throws (main.js:97-99)
MalformedTexts == {"{type:", "null"}

\* mutant of Malformed: the exception is not caught and ends the process,
\* with every session and every transport
MalformedCrashes(ws, raw) ==
  /\ readyState[ws] = "OPEN"
  /\ raw \in MalformedTexts
  /\ sessions' = [x \in {} |-> NewSession(1)]
  /\ readyState' = [w \in Transports |->
                      IF readyState[w] = "OPEN" THEN "CLOSED" ELSE readyState[w]]
  /\ sent' = <<>>
  /\ event' = [type |-> "malformed", ws |-> ws]
  /\ UNCHANGED <<wsClientId, terminated, creates, joins>>
  /\ UNCHANGED orchVars
  /\ UNCHANGED ctlVars
  /\ UNCHANGED provVars
  /\ UNCHANGED pageVars

\* ws.on('message') for such a text: the exception is caught and logged
\* (main.js:96-98, 204-208)
Malformed(ws, raw) ==
  /\ readyState[ws] = "OPEN"
  /\ raw \in MalformedTexts
  /\ sent' = <<>>
  /\ event' = [type |-> "malformed", ws |-> ws]
  /\ UNCHANGED <<sessions, wsClientId, readyState, terminated, creates, joins>>
  /\ UNCHANGED orchVars
  /\ UNCHANGED ctlVars
  /\ UNCHANGED provVars
  /\ UNCHANGED pageVars

\* ws.on('message') for a message whose type the switch has no case for,
\* such as the host page's peer-disconnected (SessionManagement.jsx:114-124):
\* no branch runs, nothing is changed and nothing is sent (main.js:99-203)
Unhandled(ws, data) ==
  /\ readyState[ws] = "OPEN"
  /\ data.type \notin {"create-session", "join-session", "approve-client",
                       "reject-client", "client-connected", "offer", "answer",
                       "candidate"}
  /\ sent' = <<>>
  /\ event' = [type |-> data.type, ws |-> ws]
  /\ UNCHANGED <<sessions, wsClientId, readyState, terminated, creates, joins>>
  /\ UNCHANGED orchVars
  /\ UNCHANGED ctlVars
  /\ UNCHANGED provVars
  /\ UNCHANGED pageVars

\* case 'create-session'; sessionId is the value Math.random() produced
CreateSession(ws, sessionId) ==
  /\ readyState[ws] = "OPEN"
  /\ creates + joins < MaxRequests
  /\ sessionId \in {SessionIdNames[i] : i \in 1..(creates + 1)}
  /\ creates' = creates + 1
  /\ sessions' = Set(sessions, sessionId, NewSession(ws))
  /\ sent' = <<Send(ws, [type |-> "session-created", sessionId |-> sessionId])>>
  /\ event' = [type |-> "create-session", ws |-> ws]
  /\ UNCHANGED <<wsClientId, readyState, terminated, joins>>
  /\ UNCHANGED orchVars
  /\ UNCHANGED ctlVars
  /\ UNCHANGED provVars
  /\ UNCHANGED pageVars

\* case 'join-session', the session map after it; clientId is the value
\* Math.random() produced
JoinSessions(ws, data, clientId) ==
  IF Has(sessions, data.sessionId)
  THEN [sessions EXCEPT ![data.sessionId].pendingClients = Set(@, clientId, ws)]
  ELSE sessions

\* mutant of JoinClientId: the generated id is stored on the caller even when
\* the session does not exist
JoinClientIdAlways(ws, data, clientId) ==
  [wsClientId EXCEPT ![ws] = clientId]

\* case 'join-session', ws.clientId after it
JoinClientId(ws, data, clientId) ==
  IF Has(sessions, data.sessionId)
  THEN [wsClientId EXCEPT ![ws] = clientId]
  ELSE wsClientId

\* case 'join-session', the messages it sends
JoinSends(ws, data, clientId) ==
  IF Has(sessions, data.sessionId)
  THEN <<Send(sessions[data.sessionId].hostWs,
              [type |-> "client-request-join", clientId |-> clientId,
               sessionId |-> data.sessionId])>>
  ELSE <<Send(ws, [type |-> "session-not-found"])>>

JoinSession(ws, data, clientId) ==
  /\ readyState[ws] = "OPEN"
  /\ data.type = "join-session"
  /\ data.sessionId \in NamedSessionIds
  /\ IF Has(sessions, data.sessionId)
     THEN /\ creates + joins < MaxRequests
          /\ clientId \in {ClientIdNames[i] : i \in 1..(joins + 1)}
          /\ joins' = joins + 1
     ELSE /\ clientId = ClientIdNames[1]
          /\ joins' = joins
  /\ sessions' = JoinSessions(ws, data, clientId)
  /\ wsClientId' = JoinClientId(ws, data, clientId)
  /\ sent' = JoinSends(ws, data, clientId)
  /\ event' = [type |-> data.type, ws |-> ws]
  /\ UNCHANGED <<readyState, terminated, creates>>
  /\ UNCHANGED orchVars
  /\ UNCHANGED ctlVars
  /\ UNCHANGED provVars
  /\ UNCHANGED pageVars

\* mutant of HostDecides: the caller is not compared with session.hostWs
HostDecidesAnyCaller(ws, data) ==
  /\ Has(sessions, data.sessionId)
  /\ Has(sessions[data.sessionId].pendingClients, data.clientId)

\* the condition of 'approve-client' and of 'reject-client':
\* session && session.hostWs === ws && session.pendingClients.has(clientId)
HostDecides(ws, data) ==
  /\ Has(sessions, data.sessionId)
  /\ sessions[data.sessionId].hostWs = ws
  /\ Has(sessions[data.sessionId].pendingClients, data.clientId)

\* case 'approve-client', the session map after it
ApproveSessions(ws, data) ==
  IF HostDecides(ws, data)
  THEN LET clientWs == sessions[data.sessionId].pendingClients[data.clientId]
       IN [sessions EXCEPT
            ![data.sessionId].pendingClients = Delete(@, data.clientId),
            ![data.sessionId].approvedClients = Set(@, data.clientId, clientWs)]
  ELSE sessions

\* case 'approve-client', the messages it sends
ApproveSends(ws, data) ==
  IF HostDecides(ws, data)
  THEN LET session == sessions[data.sessionId]
           clientWs == session.pendingClients[data.clientId]
       IN <<Send(clientWs, [type |-> "session-joined",
                            sessionId |-> data.sessionId,
                            clientId |-> data.clientId]),
            Send(session.hostWs, [type |-> "peer-approved",
                                  clientId |-> data.clientId])>>
  ELSE <<>>

ApproveClient(ws, data) ==
  /\ readyState[ws] = "OPEN"
  /\ data.sessionId \in NamedSessionIds
  /\ data.clientId \in NamedClientIds
  /\ data.type = "approve-client"
  /\ sessions' = ApproveSessions(ws, data)
  /\ sent' = ApproveSends(ws, data)
  /\ event' = [type |-> data.type, ws |-> ws]
  /\ UNCHANGED <<wsClientId, readyState, terminated, creates, joins>>
  /\ UNCHANGED orchVars
  /\ UNCHANGED ctlVars
  /\ UNCHANGED provVars
  /\ UNCHANGED pageVars

\* mutant of RejectSessions: the rejected id is moved to approvedClients, as
\* approve-client does
RejectSessionsApproves(ws, data) ==
  IF HostDecides(ws, data)
  THEN LET clientWs == sessions[data.sessionId].pendingClients[data.clientId]
       IN [sessions EXCEPT
            ![data.sessionId].pendingClients = Delete(@, data.clientId),
            ![data.sessionId].approvedClients = Set(@, data.clientId, clientWs)]
  ELSE sessions

\* case 'reject-client', the session map after it
RejectSessions(ws, data) ==
  IF HostDecides(ws, data)
  THEN [sessions EXCEPT
         ![data.sessionId].pendingClients = Delete(@, data.clientId)]
  ELSE sessions

\* case 'reject-client', the messages it sends
RejectSends(ws, data) ==
  IF HostDecides(ws, data)
  THEN <<Send(sessions[data.sessionId].pendingClients[data.clientId],
              [type |-> "session-rejected", sessionId |-> data.sessionId])>>
  ELSE <<>>

RejectClient(ws, data) ==
  /\ readyState[ws] = "OPEN"
  /\ data.sessionId \in NamedSessionIds
  /\ data.clientId \in NamedClientIds
  /\ data.type = "reject-client"
  /\ sessions' = RejectSessions(ws, data)
  /\ sent' = RejectSends(ws, data)
  /\ event' = [type |-> data.type, ws |-> ws]
  /\ UNCHANGED <<wsClientId, readyState, terminated, creates, joins>>
  /\ UNCHANGED orchVars
  /\ UNCHANGED ctlVars
  /\ UNCHANGED provVars
  /\ UNCHANGED pageVars

\* case 'client-connected', the messages it sends
ClientConnectedSends(ws, data) ==
  IF /\ Has(sessions, data.sessionId)
     /\ wsClientId[ws] /= undefined
     /\ Has(sessions[data.sessionId].approvedClients, wsClientId[ws])
  THEN <<Send(sessions[data.sessionId].hostWs,
              [type |-> "client-connected", senderId |-> wsClientId[ws],
               status |-> data.status])>>
  ELSE <<>>

ClientConnected(ws, data) ==
  /\ readyState[ws] = "OPEN"
  /\ data.sessionId \in NamedSessionIds
  /\ data.type = "client-connected"
  /\ sent' = ClientConnectedSends(ws, data)
  /\ event' = [type |-> data.type, ws |-> ws]
  /\ UNCHANGED <<sessions, wsClientId, readyState, terminated, creates, joins>>
  /\ UNCHANGED orchVars
  /\ UNCHANGED ctlVars
  /\ UNCHANGED provVars
  /\ UNCHANGED pageVars

\* mutant of SignalSends: a client's message is tagged with the senderId its
\* payload claims, when it claims one
SignalSendsClaimedSender(ws, data) ==
  IF Has(sessions, data.sessionId)
  THEN LET session == sessions[data.sessionId]
       IN IF session.hostWs = ws /\ Has(session.approvedClients, data.targetId)
          THEN <<Send(session.approvedClients[data.targetId],
                      [type |-> data.type, senderId |-> host,
                       signal |-> data.signal])>>
          ELSE IF /\ wsClientId[ws] /= undefined
                  /\ Has(session.approvedClients, wsClientId[ws])
               THEN <<Send(session.hostWs,
                           [type |-> data.type,
                            senderId |-> IF data.senderId /= undefined
                                         THEN data.senderId ELSE wsClientId[ws],
                            signal |-> data.signal])>>
               ELSE <<>>
  ELSE <<>>

\* case 'offer' / 'answer' / 'candidate', the messages it sends
SignalSends(ws, data) ==
  IF Has(sessions, data.sessionId)
  THEN LET session == sessions[data.sessionId]
       IN IF session.hostWs = ws /\ Has(session.approvedClients, data.targetId)
          THEN <<Send(session.approvedClients[data.targetId],
                      [type |-> data.type, senderId |-> host,
                       signal |-> data.signal])>>
          ELSE IF /\ wsClientId[ws] /= undefined
                  /\ Has(session.approvedClients, wsClientId[ws])
               THEN <<Send(session.hostWs,
                           [type |-> data.type, senderId |-> wsClientId[ws],
                            signal |-> data.signal])>>
               ELSE <<>>
  ELSE <<>>

Signal(ws, data) ==
  /\ readyState[ws] = "OPEN"
  /\ data.sessionId \in NamedSessionIds
  /\ data.targetId \in NamedClientIds \cup {host}
  /\ data.type \in SignalTypes
  /\ sent' = SignalSends(ws, data)
  /\ event' = [type |-> data.type, ws |-> ws]
  /\ UNCHANGED <<sessions, wsClientId, readyState, terminated, creates, joins>>
  /\ UNCHANGED orchVars
  /\ UNCHANGED ctlVars
  /\ UNCHANGED provVars
  /\ UNCHANGED pageVars

\* mutant of CloseMemberships: the approved entries of ws are not deleted
CloseMembershipsKeepsApproved(ws, session) ==
  [session EXCEPT
    !.pendingClients = [c \in {k \in DOMAIN @ : @[k] /= ws} |-> @[c]]]

\* ws.on('close'), the else branch of the loop body: the session without the
\* pending and approved entries whose transport is ws
CloseMemberships(ws, session) ==
  [session EXCEPT
    !.pendingClients = [c \in {k \in DOMAIN @ : @[k] /= ws} |-> @[c]],
    !.approvedClients = [c \in {k \in DOMAIN @ : @[k] /= ws} |-> @[c]]]

\* mutant of CloseSessions: the session of a closing host is not deleted
CloseSessionsKeepsHosted(ws) ==
  [s \in DOMAIN sessions |->
     [sessions[s] EXCEPT
       !.pendingClients = [c \in {k \in DOMAIN @ : @[k] /= ws} |-> @[c]],
       !.approvedClients = [c \in {k \in DOMAIN @ : @[k] /= ws} |-> @[c]]]]

\* mutant of CloseSessions: the sessions of a closing host are deleted, the
\* memberships of a closing client stay
CloseSessionsSkipsClients(ws) ==
  [s \in {k \in DOMAIN sessions : sessions[k].hostWs /= ws} |-> sessions[s]]

\* ws.on('close'), the session map after it: a session whose hostWs is ws is
\* deleted, the others lose the memberships of ws
CloseSessions(ws) ==
  [s \in {k \in DOMAIN sessions : sessions[k].hostWs /= ws} |->
     CloseMemberships(ws, sessions[s])]

RECURSIVE NotifyAll(_, _, _)
\* map.forEach(clientWs => clientWs.send(msg))
NotifyAll(map, keys, msg) ==
  IF keys = <<>> THEN <<>>
  ELSE <<Send(map[Head(keys)], msg)>> \o NotifyAll(map, Tail(keys), msg)

RECURSIVE NotifyHost(_, _, _, _, _)
\* map.forEach((clientWs, clientId) => { if (clientWs === ws) ... hostWs.send })
NotifyHost(ws, session, map, keys, type) ==
  IF keys = <<>> THEN <<>>
  ELSE (IF map[Head(keys)] = ws /\ readyState[session.hostWs] = "OPEN"
        THEN <<Send(session.hostWs, [type |-> type, clientId |-> Head(keys)])>>
        ELSE <<>>)
       \o NotifyHost(ws, session, map, Tail(keys), type)

\* ws.on('close'), the messages the loop body sends for one session
CloseSessionSends(ws, session) ==
  IF session.hostWs = ws
  THEN NotifyAll(session.pendingClients, Keys(session.pendingClients),
                 [type |-> "host-disconnected"])
       \o NotifyAll(session.approvedClients, Keys(session.approvedClients),
                    [type |-> "host-disconnected"])
  ELSE NotifyHost(ws, session, session.pendingClients,
                  Keys(session.pendingClients), "client-disconnected")
       \o NotifyHost(ws, session, session.approvedClients,
                     Keys(session.approvedClients), "peer-disconnected")

RECURSIVE CloseSends(_, _)
\* ws.on('close'), the messages it sends: sessions.forEach over keys
CloseSends(ws, keys) ==
  IF keys = <<>> THEN <<>>
  ELSE CloseSessionSends(ws, sessions[Head(keys)]) \o CloseSends(ws, Tail(keys))

Close(ws) ==
  /\ readyState[ws] = "OPEN"
  /\ readyState' = [readyState EXCEPT ![ws] = "CLOSED"]
  /\ sessions' = CloseSessions(ws)
  /\ sent' = CloseSends(ws, SessionKeys)
  /\ terminated' = terminated \cup {s \in DOMAIN sessions : sessions[s].hostWs = ws}
  /\ event' = [type |-> "close", ws |-> ws]
  /\ UNCHANGED <<wsClientId, creates, joins>>
  /\ UNCHANGED orchVars
  /\ UNCHANGED ctlVars
  /\ UNCHANGED provVars
  /\ UNCHANGED pageVars

\* ===================================================================
\* The peer negotiation orchestrator: the useWebRTC hook of one participant
\* (src/unnamed/part_001) and the code that passes signaling messages to it.
\* ===================================================================

\* ------------------------------------------------------------- bounds
MaxArrivals == 4   \* signaling messages that reach the participant in a run
MaxPcs == 2        \* RTCPeerConnection objects the hook constructs in a run
MaxUiCalls == 2    \* calls of createOffer / removePeer / resetConnections
                   \* made by the page in a run

\* the client ids a host hears of
PeerIds == {"p1", "p2"}
\* keys of peerConnectionsRef: a client id on the host, 'host' on a client
TargetIds == PeerIds \cup {host}
\* the join code the page was given / the code of session-created
joinCode == "AAAA"
\* ['session-created', 'session-joined']
LifecycleTypes == {"session-created", "session-joined"}

\* pendingIceCandidates: {} reads as [] under every key
NoCandidates == [t \in TargetIds |-> <<>>]
\* new RTCPeerConnection(configuration), made for targetId
NewPc(targetId) ==
  [targetId |-> targetId, remoteDescription |-> FALSE,
   localDescription |-> FALSE, closed |-> FALSE, added |-> <<>>,
   connectionState |-> "new"]

\* the hook after its first render (part_001:9-19), no listener effect run yet
HookInit ==
  [peers |-> <<>>, pendingClients |-> <<>>, remoteStream |-> FALSE,
   isSessionReady |-> FALSE, currentSessionCode |-> "",
   signalingQueue |-> <<>>, pendingIceCandidates |-> NoCandidates,
   connectingPeers |-> {}, isConnecting |-> FALSE,
   peerConnectionsRef |-> EmptyMap, dataChannelsRef |-> {},
   pcs |-> <<>>,        \* every RTCPeerConnection constructed, by number
   tasks |-> <<>>,      \* async calls suspended at an await
   listeners |-> <<>>,  \* ipcRenderer listeners: the isSessionReady each saw
   handled |-> <<>>,    \* history: ids passed to handleSignalingMessage
   out |-> <<>>,        \* what the last step passed to sendMessage
   alerts |-> <<>>,     \* what the last step passed to alert
   closedNow |-> {}]    \* the connections the last step closed

\* the fields that resetConnections is to restore, connecting indicators
\* included
HookState(h) ==
  [peers |-> h.peers, pendingClients |-> h.pendingClients,
   remoteStream |-> h.remoteStream, isSessionReady |-> h.isSessionReady,
   currentSessionCode |-> h.currentSessionCode,
   signalingQueue |-> h.signalingQueue,
   pendingIceCandidates |-> h.pendingIceCandidates,
   connectingPeers |-> h.connectingPeers, isConnecting |-> h.isConnecting,
   peerConnectionsRef |-> h.peerConnectionsRef,
   dataChannelsRef |-> h.dataChannelsRef]

\* peerConnectionsRef.current[targetId], 0 for undefined
PcOf(h, targetId) ==
  IF Has(h.peerConnectionsRef, targetId) THEN h.peerConnectionsRef[targetId]
  ELSE 0

\* pc.close() on connection number p
ClosePc(h, p) ==
  [h EXCEPT !.pcs[p].closed = TRUE, !.closedNow = @ \cup {p}]

RECURSIVE CloseAll(_, _)
\* Object.values(peerConnectionsRef.current).forEach(pc => pc.close())
CloseAll(h, ps) ==
  IF ps = {} THEN h
  ELSE LET p == CHOOSE x \in ps : TRUE
       IN CloseAll(ClosePc(h, p), ps \ {p})

\* prev.filter(x => x.id !== id) on a list of records with an id
WithoutId(list, id) == SelectSeq(list, LAMBDA x : x.id /= id)

\* prev.map(p => p.id === id ? {...p, status: 'Connected'} : p)
MarkConnected(list, id) ==
  [i \in 1..Len(list) |->
     IF list[i].id = id THEN [list[i] EXCEPT !.status = "Connected"]
     ELSE list[i]]

\* mutant of CreatePeerConnection: the connection the target already has is
\* left open
CreatePeerConnectionLeaksOld(h, targetId) ==
  LET p == Len(h.pcs) + 1
  IN [h EXCEPT
       !.pcs = Append(@, NewPc(targetId)),
       !.peerConnectionsRef = Set(@, targetId, p),
       !.dataChannelsRef = IF isHost THEN @ \cup {targetId} ELSE @]

\* createPeerConnection(sessionId, targetId): an existing connection of the
\* target is closed, the new one is stored under the target; the host opens
\* the data channel
CreatePeerConnection(h, targetId) ==
  LET old == PcOf(h, targetId)
      h1 == IF old /= 0 THEN ClosePc(h, old) ELSE h
      p == Len(h1.pcs) + 1
  IN [h1 EXCEPT
       !.pcs = Append(@, NewPc(targetId)),
       !.peerConnectionsRef = Set(@, targetId, p),
       !.dataChannelsRef = IF isHost THEN @ \cup {targetId} ELSE @]

\* mutant of RemovePeer: the peer list and the data channels of all peers are
\* dropped with the one of clientId
RemovePeerDropsAll(h, clientId) ==
  LET p == PcOf(h, clientId)
      h1 == IF p /= 0 THEN ClosePc(h, p) ELSE h
  IN [h1 EXCEPT
       !.peers = <<>>,
       !.peerConnectionsRef = IF p /= 0 THEN Delete(@, clientId) ELSE @,
       !.dataChannelsRef = {}]

\* removePeer(clientId)
RemovePeer(h, clientId) ==
  LET p == PcOf(h, clientId)
      h1 == IF p /= 0 THEN ClosePc(h, p) ELSE h
  IN [h1 EXCEPT
       !.peers = WithoutId(@, clientId),
       !.peerConnectionsRef = IF p /= 0 THEN Delete(@, clientId) ELSE @,
       !.dataChannelsRef = @ \ {clientId}]

\* mutant of ResetConnections: the connections are closed and the state is
\* cleared, but peerConnectionsRef keeps them
ResetConnectionsKeepsRef(h) ==
  LET h1 == CloseAll(h, {h.peerConnectionsRef[t] : t \in DOMAIN h.peerConnectionsRef})
  IN [h1 EXCEPT
       !.dataChannelsRef = {},
       !.peers = <<>>,
       !.pendingClients = <<>>,
       !.remoteStream = FALSE,
       !.isSessionReady = FALSE,
       !.currentSessionCode = "",
       !.signalingQueue = <<>>,
       !.pendingIceCandidates = NoCandidates]

\* resetConnections()
ResetConnections(h) ==
  LET h1 == CloseAll(h, {h.peerConnectionsRef[t] : t \in DOMAIN h.peerConnectionsRef})
  IN [h1 EXCEPT
       !.peerConnectionsRef = EmptyMap,
       !.dataChannelsRef = {},
       !.peers = <<>>,
       !.pendingClients = <<>>,
       !.remoteStream = FALSE,
       !.isSessionReady = FALSE,
       !.currentSessionCode = "",
       !.signalingQueue = <<>>,
       !.pendingIceCandidates = NoCandidates]

\* an async call suspended at an await: op names the function and the await,
\* rest is what is left of the drain loop that awaits the call
Task(op, pc, data, rest) == [op |-> op, pc |-> pc, data |-> data, rest |-> rest]

\* the pendingIceCandidates that handleOffer reads: handleSignalingMessage is
\* memoized on [isHost, joinCode, parseMessage] (part_001:137) and calls the
\* handleOffer of the render in which it was made, which holds the
\* pendingIceCandidates of that render (part_001:146, 169); isHost and
\* joinCode are set before the session starts, when the buffer is empty
HandleOfferCandidates == NoCandidates

\* handleIceCandidate(pc, data, isHost)
HandleIceCandidate(h, data, rest) ==
  LET targetId == IF isHost THEN data.senderId ELSE host
      p == IF isHost THEN PcOf(h, data.senderId) ELSE PcOf(h, host)
  IN IF p /= 0 /\ h.pcs[p].remoteDescription
     THEN [h EXCEPT !.pcs[p].added = Append(@, data.id),
                    !.tasks = Append(@, Task("handleIceCandidate", p, data, rest))]
     ELSE [h EXCEPT !.pendingIceCandidates[targetId] = Append(@, data.id)]

\* handleSignalingMessage(message) up to its first await; rest is passed on
\* to the call it suspends in
HandleSignalingMessage(h0, data, rest) ==
  LET h == [h0 EXCEPT !.handled = Append(@, data.id)]
      p == IF isHost THEN PcOf(h, data.senderId) ELSE PcOf(h, host)
  IN CASE data.type = "session-created" ->
            [h EXCEPT !.currentSessionCode = joinCode, !.isSessionReady = TRUE]
       [] data.type = "session-joined" ->
            [CreatePeerConnection(h, host) EXCEPT !.isSessionReady = TRUE]
       [] data.type = "client-request-join" ->
            [h EXCEPT !.pendingClients = Append(@, [id |-> data.clientId])]
       [] data.type = "peer-approved" ->
            [h EXCEPT
              !.peers = Append(@, [id |-> data.clientId, status |-> "Connecting"]),
              !.pendingClients = WithoutId(@, data.clientId)]
       [] data.type = "session-rejected" ->
            ResetConnections([h EXCEPT !.alerts = Append(@, "session-rejected")])
       [] data.type = "offer" ->
            IF p /= 0
            THEN [h EXCEPT !.tasks =
                    Append(@, Task("handleOffer.setRemoteDescription", p, data, rest))]
            ELSE h
       [] data.type = "answer" ->
            IF p /= 0
            THEN [h EXCEPT !.tasks =
                    Append(@, Task("handleAnswer.setRemoteDescription", p, data, rest))]
            ELSE h
       [] data.type = "candidate" -> HandleIceCandidate(h, data, rest)
       [] data.type = "host-disconnected" ->
            ResetConnections([h EXCEPT !.alerts = Append(@, "host-disconnected")])
       [] data.type = "peer-disconnected" -> RemovePeer(h, data.clientId)
       [] data.type = "client-disconnected" ->
            [h EXCEPT !.pendingClients = WithoutId(@, data.clientId)]
       [] data.type = "session-not-found" ->
            [h EXCEPT !.alerts = Append(@, "session-not-found")]
       [] data.type = "client-connected" ->
            IF isHost /\ data.senderId /= undefined
            THEN [h EXCEPT !.peers = MarkConnected(@, data.senderId)]
            ELSE h
       [] OTHER -> h

RECURSIVE HandleInTurn(_, _)
\* for (const message of messages) await handleSignalingMessage(message):
\* the loop goes on while the handler returns without waiting for a
\* connection, and is suspended with the handler otherwise
HandleInTurn(h, messages) ==
  IF messages = <<>> THEN h
  ELSE LET h1 == HandleSignalingMessage(h, Head(messages), Tail(messages))
       IN IF Len(h1.tasks) > Len(h.tasks) THEN h1
          ELSE HandleInTurn(h1, Tail(messages))

\* the continuation of a suspended call when its await returns; a closed
\* connection rejects, which the try/catch of the function swallows
Continue(h, t) ==
  LET pc == h.pcs[t.pc]
  IN CASE t.op = "handleOffer.setRemoteDescription" ->
            IF pc.closed THEN h
            ELSE LET candidates == HandleOfferCandidates[host]
                     h1 == [h EXCEPT !.pcs[t.pc].remoteDescription = TRUE]
                     h2 == IF Len(candidates) > 0
                           THEN [h1 EXCEPT
                                  !.pcs[t.pc].added = @ \o candidates,
                                  !.pendingIceCandidates[host] = <<>>]
                           ELSE h1
                 IN [h2 EXCEPT !.tasks =
                       Append(@, Task("handleOffer.createAnswer", t.pc, t.data, t.rest))]
       [] t.op = "handleOffer.createAnswer" ->
            IF pc.closed THEN h
            ELSE [h EXCEPT
                   !.pcs[t.pc].localDescription = TRUE,
                   !.out = Append(@, [type |-> "answer", sessionId |-> joinCode,
                                      targetId |-> t.data.senderId])]
       [] t.op = "handleAnswer.setRemoteDescription" ->
            IF pc.closed \/ ~pc.localDescription \/ pc.remoteDescription THEN h
            ELSE [h EXCEPT !.pcs[t.pc].remoteDescription = TRUE]
       [] t.op = "handleIceCandidate" -> h
       [] t.op = "createOffer" ->
            IF pc.closed THEN h
            ELSE [h EXCEPT
                   !.pcs[t.pc].localDescription = TRUE,
                   !.out = Append(@, [type |-> "offer", sessionId |-> joinCode,
                                      targetId |-> pc.targetId])]
       [] OTHER -> h

\* window.api.removeWsMessageListener(ipcListener) in the cleanup of the
\* listener effect (part_007:285-289): onWsMessage registered a wrapper
\* (event, message) => callback(message) (preload.js:14), so removeListener
\* finds no listener equal to ipcListener and removes none (preload.js:15)
RemoveWsMessageListener(listeners) == listeners

RECURSIVE Effects(_)
\* the effects React runs after the render that follows a step: the listener
\* effect registers a listener that sees the new isSessionReady (the one
\* registered before stays, see RemoveWsMessageListener), the queue effect
\* runs processSignalingQueue
Effects(h) ==
  LET h1 == IF wiring = "ipc" /\ h.listeners[Len(h.listeners)] /= h.isSessionReady
            THEN [h EXCEPT !.listeners =
                    Append(RemoveWsMessageListener(@), h.isSessionReady)]
            ELSE h
  IN IF h1.isSessionReady /\ Len(h1.signalingQueue) > 0
     THEN Effects(HandleInTurn([h1 EXCEPT !.signalingQueue = <<>>],
                               h1.signalingQueue))
     ELSE h1

\* what a step starts from: the per-step records are empty
Fresh(h) == [h EXCEPT !.out = <<>>, !.alerts = <<>>, !.closedNow = {}]

\* a message with no content, for steps that handle none
NoData == [id |-> 0, type |-> "none", senderId |-> undefined, clientId |-> undefined]

\* the signaling messages the registry can send to the participant: to a
\* host (main.js:104, 116, 132, 157, 188, 226, 236), to a client
\* (main.js:119, 131, 144, 181, 216)
InboundMessages ==
  IF isHost
  THEN [id : {arrivals + 1}, type : {"session-created"},
        senderId : {undefined}, clientId : {undefined}]
       \cup [id : {arrivals + 1},
             type : {"client-request-join", "peer-approved",
                     "peer-disconnected", "client-disconnected"},
             senderId : {undefined}, clientId : PeerIds]
       \cup [id : {arrivals + 1}, type : {"answer", "candidate", "client-connected"},
             senderId : PeerIds, clientId : {undefined}]
  ELSE [id : {arrivals + 1},
        type : {"session-joined", "session-rejected", "session-not-found",
                "host-disconnected"},
        senderId : {undefined}, clientId : {undefined}]
       \cup [id : {arrivals + 1}, type : {"offer", "candidate"},
             senderId : {host}, clientId : {undefined}]

\* the listener of the message effect (part_001:424-433, part_007:271-280)
\* as registered when isSessionReady was ready
IpcListener(h, ready, data) ==
  IF ~ready /\ data.type \notin LifecycleTypes
  THEN [h EXCEPT !.signalingQueue = Append(@, data)]
  ELSE HandleInTurn(h, <<data>>)

RECURSIVE Emit(_, _, _)
\* ipcRenderer calls every listener registered for 'ws-message-from-main'
Emit(h, listeners, data) ==
  IF listeners = <<>> THEN h
  ELSE Emit(IpcListener(h, Head(listeners), data), Tail(listeners), data)

\* a signaling message reaches the page, which passes it to the hook
Deliver(data) ==
  /\ arrivals < MaxArrivals
  /\ data \in InboundMessages
  /\ data.type = "session-joined" => Len(hook.pcs) < MaxPcs
  /\ hook' = Effects(IF wiring = "ipc"
                     THEN Emit(Fresh(hook), hook.listeners, data)
                     ELSE HandleInTurn(Fresh(hook), <<data>>))
  /\ arrivals' = arrivals + 1
  /\ step' = [type |-> "message", data |-> data, pc |-> 0]
  /\ UNCHANGED <<isHost, wiring, uiCalls>>
  /\ UNCHANGED vars
  /\ UNCHANGED ctlVars
  /\ UNCHANGED provVars
  /\ UNCHANGED pageVars

\* the await of suspended call i returns; the operations of one connection
\* return in the order they were started
Resume(i) ==
  /\ i \in 1..Len(hook.tasks)
  /\ \A j \in 1..(i - 1) : hook.tasks[j].pc /= hook.tasks[i].pc
  /\ LET t == hook.tasks[i]
         h0 == [Fresh(hook) EXCEPT !.tasks =
                  SubSeq(@, 1, i - 1) \o SubSeq(@, i + 1, Len(@))]
         h1 == Continue(h0, t)
     IN /\ hook' = Effects(IF Len(h1.tasks) > Len(h0.tasks) THEN h1
                           ELSE HandleInTurn(h1, t.rest))
        /\ step' = [type |-> t.op, data |-> t.data, pc |-> t.pc]
  /\ UNCHANGED <<isHost, wiring, arrivals, uiCalls>>
  /\ UNCHANGED vars
  /\ UNCHANGED ctlVars
  /\ UNCHANGED provVars
  /\ UNCHANGED pageVars

\* createOffer(sessionId, clientId, mediaStream) up to await pc.createOffer();
\* the page calls it when the host approves a pending client
\* (SessionManagement.jsx:95-108)
CreateOffer(clientId) ==
  /\ isHost
  /\ uiCalls < MaxUiCalls
  /\ Len(hook.pcs) < MaxPcs
  /\ \E i \in 1..Len(hook.pendingClients) : hook.pendingClients[i].id = clientId
  /\ LET h1 == CreatePeerConnection(Fresh(hook), clientId)
     IN hook' = Effects([h1 EXCEPT !.tasks =
                           Append(@, Task("createOffer", PcOf(h1, clientId),
                                          NoData, <<>>))])
  /\ uiCalls' = uiCalls + 1
  /\ step' = [type |-> "createOffer", data |-> NoData, pc |-> Len(hook.pcs) + 1]
  /\ UNCHANGED <<isHost, wiring, arrivals>>
  /\ UNCHANGED vars
  /\ UNCHANGED ctlVars
  /\ UNCHANGED provVars
  /\ UNCHANGED pageVars

\* the page calls removePeer for a listed peer (revokePeer,
\* SessionManagement.jsx:114-115)
RevokePeer(clientId) ==
  /\ isHost
  /\ uiCalls < MaxUiCalls
  /\ \E i \in 1..Len(hook.peers) : hook.peers[i].id = clientId
  /\ hook' = Effects(RemovePeer(Fresh(hook), clientId))
  /\ uiCalls' = uiCalls + 1
  /\ step' = [type |-> "removePeer", data |-> NoData, pc |-> 0]
  /\ UNCHANGED <<isHost, wiring, arrivals>>
  /\ UNCHANGED vars
  /\ UNCHANGED ctlVars
  /\ UNCHANGED provVars
  /\ UNCHANGED pageVars

\* the page calls resetConnections (resetSession, SessionManagement.jsx:140)
ResetSession ==
  /\ uiCalls < MaxUiCalls
  /\ hook' = Effects(ResetConnections(Fresh(hook)))
  /\ uiCalls' = uiCalls + 1
  /\ step' = [type |-> "resetConnections", data |-> NoData, pc |-> 0]
  /\ UNCHANGED <<isHost, wiring, arrivals>>
  /\ UNCHANGED vars
  /\ UNCHANGED ctlVars
  /\ UNCHANGED provVars
  /\ UNCHANGED pageVars

\* connectingPeers and isConnecting after the target left the connecting set
\* (part_001:295-313, 316-334)
StopConnecting(h, targetId) ==
  [h EXCEPT !.connectingPeers = @ \ {targetId},
            !.isConnecting = IF h.connectingPeers \ {targetId} = {} THEN FALSE ELSE @]

\* mutant of OnConnectionStateChange: a client that loses its connection
\* removes the one peer, as the host does, and raises no alert
OnConnectionStateChangeEvictsOnly(h, p, state) ==
  LET targetId == h.pcs[p].targetId
      h0 == [h EXCEPT !.pcs[p].connectionState = state]
  IN CASE state = "connecting" ->
            [h0 EXCEPT !.connectingPeers = @ \cup {targetId},
                       !.isConnecting = TRUE]
       [] state = "connected" ->
            LET h1 == StopConnecting(h0, targetId)
            IN IF isHost
               THEN [h1 EXCEPT !.peers = MarkConnected(@, targetId)]
               ELSE [h1 EXCEPT !.out =
                       Append(@, [type |-> "client-connected",
                                  sessionId |-> joinCode, targetId |-> host])]
       [] state \in {"failed", "disconnected"} ->
            StopConnecting(RemovePeer(h0, targetId), targetId)
       [] OTHER -> h0

\* pc.onconnectionstatechange of connection p with pc.connectionState = state
OnConnectionStateChange(h, p, state) ==
  LET targetId == h.pcs[p].targetId
      h0 == [h EXCEPT !.pcs[p].connectionState = state]
  IN CASE state = "connecting" ->
            [h0 EXCEPT !.connectingPeers = @ \cup {targetId},
                       !.isConnecting = TRUE]
       [] state = "connected" ->
            LET h1 == StopConnecting(h0, targetId)
            IN IF isHost
               THEN [h1 EXCEPT !.peers = MarkConnected(@, targetId)]
               ELSE [h1 EXCEPT !.out =
                       Append(@, [type |-> "client-connected",
                                  sessionId |-> joinCode, targetId |-> host])]
       [] state = "failed" ->
            StopConnecting(IF isHost THEN RemovePeer(h0, targetId)
                           ELSE ResetConnections(
                                  [h0 EXCEPT !.alerts = Append(@, "connection-failed")]),
                           targetId)
       [] state = "disconnected" ->
            StopConnecting(IF isHost THEN RemovePeer(h0, targetId)
                           ELSE ResetConnections(
                                  [h0 EXCEPT !.alerts = Append(@, "connection-lost")]),
                           targetId)
       [] OTHER -> h0

\* the connection states the browser can report next for a connection:
\* connecting once both descriptions are set, connected after connecting,
\* failed or disconnected after either
NextConnectionStates(pc) ==
  IF pc.closed THEN {}
  ELSE CASE pc.connectionState = "new" ->
              IF pc.localDescription /\ pc.remoteDescription
              THEN {"connecting"} ELSE {}
         [] pc.connectionState = "connecting" ->
              {"connected", "failed", "disconnected"}
         [] pc.connectionState = "connected" -> {"failed", "disconnected"}
         [] OTHER -> {}

ConnectionStateChange(p, state) ==
  /\ p \in 1..Len(hook.pcs)
  /\ state \in NextConnectionStates(hook.pcs[p])
  /\ hook' = Effects(OnConnectionStateChange(Fresh(hook), p, state))
  /\ step' = [type |-> state, data |-> NoData, pc |-> p]
  /\ UNCHANGED <<isHost, wiring, arrivals, uiCalls>>
  /\ UNCHANGED vars
  /\ UNCHANGED ctlVars
  /\ UNCHANGED provVars
  /\ UNCHANGED pageVars

\* pc.ondatachannel on a client: the channel the host opened arrives
\* (part_001:221-224)
OnDataChannel(p) ==
  /\ ~isHost
  /\ p \in 1..Len(hook.pcs)
  /\ ~hook.pcs[p].closed /\ hook.pcs[p].connectionState = "connected"
  /\ host \notin hook.dataChannelsRef
  /\ hook' = [Fresh(hook) EXCEPT !.dataChannelsRef = @ \cup {host}]
  /\ step' = [type |-> "datachannel", data |-> NoData, pc |-> p]
  /\ UNCHANGED <<isHost, wiring, arrivals, uiCalls>>
  /\ UNCHANGED vars
  /\ UNCHANGED ctlVars
  /\ UNCHANGED provVars
  /\ UNCHANGED pageVars

\* pc.ontrack: the first remote track makes the remote stream
\* (part_001:244-255)
OnTrack(p) ==
  /\ p \in 1..Len(hook.pcs)
  /\ ~hook.pcs[p].closed /\ hook.pcs[p].connectionState = "connected"
  /\ ~hook.remoteStream
  /\ hook' = [Fresh(hook) EXCEPT !.remoteStream = TRUE]
  /\ step' = [type |-> "track", data |-> NoData, pc |-> p]
  /\ UNCHANGED <<isHost, wiring, arrivals, uiCalls>>
  /\ UNCHANGED vars
  /\ UNCHANGED ctlVars
  /\ UNCHANGED provVars
  /\ UNCHANGED pageVars

\* connectingPeers.length (part_001:454, 462): connectingPeers is a Set, which
\* has a size and no length
SetLength(set) == undefined
\* x > 0 in JavaScript: false for undefined
GreaterThanZero(x) == x /= undefined /\ x > 0
\* the condition under which the timeout effect sets its timer
\* (part_001:454)
TimeoutArmed(h) ==
  ~isHost /\ h.isConnecting /\ GreaterThanZero(SetLength(h.connectingPeers))

\* connection p has been connecting for 30 seconds without a render in
\* between: the callback of the timer runs if the timeout effect set one
\* (part_001:455-459)
ThirtySeconds(p) ==
  /\ p \in 1..Len(hook.pcs)
  /\ ~hook.pcs[p].closed /\ hook.pcs[p].connectionState = "connecting"
  /\ hook' = IF TimeoutArmed(hook)
             THEN Effects(ResetConnections(
                    [Fresh(hook) EXCEPT !.alerts = Append(@, "connection-timeout")]))
             ELSE Fresh(hook)
  /\ step' = [type |-> "30s", data |-> NoData, pc |-> p]
  /\ UNCHANGED <<isHost, wiring, arrivals, uiCalls>>
  /\ UNCHANGED vars
  /\ UNCHANGED ctlVars
  /\ UNCHANGED provVars
  /\ UNCHANGED pageVars

\* ===================================================================
\* The remote control of one participant: the useRemoteControl hook
\* (src/unnamed/part_002) and the data channels the orchestrator keeps in
\* dataChannelsRef, which the page passes to it (SessionManagement.jsx:52)
\* ===================================================================
MaxChannels == 3   \* RTCDataChannel objects made in a run

\* the input events a controlling client sends (part_002:37-69)
InputTypes == {"mousemove", "mousedown", "mouseup", "keydown", "keyup", "scroll"}
\* what arrives on a control channel
ChannelMessageTypes == InputTypes \cup {"cursor-position"}

\* channel.onmessage: not assigned; assigned by the setupDataChannel of the
\* hook in App.jsx (287-297); assigned by the message effect of
\* useRemoteControl for peerId, with the peersWithControl of its render
\* (part_002:140-161)
NoHandler == [by |-> "none", peerId |-> undefined, peersWithControl |-> {}]
SetupHandler == [by |-> "setupDataChannel", peerId |-> undefined, peersWithControl |-> {}]
EffectHandler(peerId, peersWithControl) ==
  [by |-> "useRemoteControl", peerId |-> peerId, peersWithControl |-> peersWithControl]

\* setupDataChannel(channel, targetId): part_001:344-354 assigns onopen and
\* onclose only, App.jsx:286-302 assigns onmessage
SetupDataChannel(channel) ==
  IF channelSetup = "App.jsx" THEN [channel EXCEPT !.onmessage = SetupHandler]
  ELSE channel

\* pc.createDataChannel('input-channel') / event.channel of ondatachannel
NewChannel(targetId) ==
  SetupDataChannel([targetId |-> targetId, readyState |-> "connecting",
                    onmessage |-> NoHandler])

\* useRemoteControl after its first render (part_002:8-9) with no channel yet
ControlInit ==
  [peersWithControl |-> {}, clientCursors |-> {},
   channels |-> <<>>,             \* every RTCDataChannel made, by number
   dataChannelsRef |-> EmptyMap,  \* dataChannelsRef.current: key -> channel
   injected |-> <<>>,             \* what the last step passed to sendInputEvent
   last |-> [type |-> "mount", channel |-> 0, message |-> "none"]]

RECURSIVE AssignHandlers(_, _)
\* the message effect (part_002:137-168): every channel of dataChannelsRef
\* that is open gets an onmessage made in this render
AssignHandlers(c, keys) ==
  IF keys = {} THEN c
  ELSE LET peerId == CHOOSE k \in keys : TRUE
           ch == c.dataChannelsRef[peerId]
           c1 == IF c.channels[ch].readyState = "open"
                 THEN [c EXCEPT !.channels[ch].onmessage =
                         EffectHandler(peerId, c.peersWithControl)]
                 ELSE c
       IN AssignHandlers(c1, keys \ {peerId})
MessageEffect(c) == AssignHandlers(c, DOMAIN c.dataChannelsRef)

\* mutant of OnMessage: a cursor position is treated as any other message
\* with a type
OnMessageInjectsCursor(c, ch, type) ==
  LET h == c.channels[ch].onmessage
  IN CASE h.by = "setupDataChannel" -> [c EXCEPT !.injected = Append(@, type)]
       [] h.by = "useRemoteControl" ->
            IF isHost /\ h.peerId \in h.peersWithControl
            THEN [c EXCEPT !.injected = Append(@, type)]
            ELSE c
       [] OTHER -> c

\* channel.onmessage(event) of channel ch for a message of the given type
OnMessage(c, ch, type) ==
  LET h == c.channels[ch].onmessage
  IN CASE h.by = "setupDataChannel" ->
            IF type = "cursor-position" THEN c
            ELSE [c EXCEPT !.injected = Append(@, type)]
       [] h.by = "useRemoteControl" ->
            IF type = "cursor-position"
            THEN IF isHost THEN [c EXCEPT !.clientCursors = @ \cup {h.peerId}]
                 ELSE c
            ELSE IF isHost /\ h.peerId \in h.peersWithControl
                 THEN [c EXCEPT !.injected = Append(@, type)]
                 ELSE c
       [] OTHER -> c

\* what a step of the remote control starts from
FreshControl(c) == [c EXCEPT !.injected = <<>>]

\* pc.close() closes the data channel of the connection
CloseChannel(c, ch) == [c EXCEPT !.channels[ch].readyState = "closed"]

RECURSIVE CloseChannels(_, _)
CloseChannels(c, chs) ==
  IF chs = {} THEN c
  ELSE LET ch == CHOOSE x \in chs : TRUE
       IN CloseChannels(CloseChannel(c, ch), chs \ {ch})

\* handleToggleControl(peerId) (part_002:12-22), the render and the message
\* effect that follow: peersWithControl is a dependency of the effect
ToggleControl(peerId) ==
  /\ isHost
  /\ control' = MessageEffect(
       [FreshControl(control) EXCEPT
          !.peersWithControl = IF peerId \in @ THEN @ \ {peerId}
                               ELSE @ \cup {peerId},
          !.last = [type |-> "toggle", channel |-> 0, message |-> peerId]])
  /\ UNCHANGED <<channelSetup>>
  /\ UNCHANGED orchVars
  /\ UNCHANGED vars
  /\ UNCHANGED provVars
  /\ UNCHANGED pageVars

\* createPeerConnection(sessionId, targetId) as far as the data channels go:
\* the connection the target had is closed and its channel with it; the host
\* makes a channel and stores it under the target, a client stores the
\* channel it is given under 'host' (part_001:208-224)
CreateDataChannel(targetId) ==
  /\ Len(control.channels) < MaxChannels
  /\ targetId \in (IF isHost THEN PeerIds ELSE {host})
  /\ LET c0 == FreshControl(control)
         c1 == IF Has(c0.dataChannelsRef, targetId)
               THEN CloseChannel(c0, c0.dataChannelsRef[targetId]) ELSE c0
         ch == Len(c1.channels) + 1
     IN control' = [c1 EXCEPT
          !.channels = Append(@, NewChannel(targetId)),
          !.dataChannelsRef = Set(@, targetId, ch),
          !.last = [type |-> "createDataChannel", channel |-> ch,
                    message |-> targetId]]
  /\ UNCHANGED <<channelSetup>>
  /\ UNCHANGED orchVars
  /\ UNCHANGED vars
  /\ UNCHANGED provVars
  /\ UNCHANGED pageVars

\* channel.onopen: the channel becomes open; no state of a hook changes
ChannelOpen(ch) ==
  /\ ch \in 1..Len(control.channels)
  /\ control.channels[ch].readyState = "connecting"
  /\ control' = [FreshControl(control) EXCEPT
       !.channels[ch].readyState = "open",
       !.last = [type |-> "open", channel |-> ch, message |-> "none"]]
  /\ UNCHANGED <<channelSetup>>
  /\ UNCHANGED orchVars
  /\ UNCHANGED vars
  /\ UNCHANGED provVars
  /\ UNCHANGED pageVars

\* removePeer(clientId) as far as the data channels go: the connection is
\* closed and the entry deleted (part_001:362-369)
RemovePeerChannel(clientId) ==
  /\ isHost
  /\ Has(control.dataChannelsRef, clientId)
  /\ control' = [CloseChannel(FreshControl(control), control.dataChannelsRef[clientId])
       EXCEPT !.dataChannelsRef = Delete(@, clientId),
              !.last = [type |-> "removePeer", channel |-> 0, message |-> clientId]]
  /\ UNCHANGED <<channelSetup>>
  /\ UNCHANGED orchVars
  /\ UNCHANGED vars
  /\ UNCHANGED provVars
  /\ UNCHANGED pageVars

\* resetConnections() as far as the data channels go (part_001:375-377)
ResetChannels ==
  /\ control.dataChannelsRef /= EmptyMap
  /\ control' = [CloseChannels(FreshControl(control),
                               {control.dataChannelsRef[k] : k \in DOMAIN control.dataChannelsRef})
       EXCEPT !.dataChannelsRef = EmptyMap,
              !.last = [type |-> "resetConnections", channel |-> 0, message |-> "none"]]
  /\ UNCHANGED <<channelSetup>>
  /\ UNCHANGED orchVars
  /\ UNCHANGED vars
  /\ UNCHANGED provVars
  /\ UNCHANGED pageVars

\* a message of the peer arrives on open channel ch
ChannelMessage(ch, type) ==
  /\ ch \in 1..Len(control.channels)
  /\ control.channels[ch].readyState = "open"
  /\ control' = [OnMessage(FreshControl(control), ch, type) EXCEPT
       !.last = [type |-> "message", channel |-> ch, message |-> type]]
  /\ UNCHANGED <<channelSetup>>
  /\ UNCHANGED orchVars
  /\ UNCHANGED vars
  /\ UNCHANGED provVars
  /\ UNCHANGED pageVars

\* ws.onclose of the participant's signaling transport (part_003:108-117):
\* the provider sets isConnected and may set a timer to connect again; the
\* page reads neither (SessionManagement.jsx:27-30) and the hook is not told
WsClose ==
  /\ hook' = Fresh(hook)
  /\ step' = [type |-> "ws.onclose", data |-> NoData, pc |-> 0]
  /\ UNCHANGED <<isHost, wiring, arrivals, uiCalls>>
  /\ UNCHANGED vars
  /\ UNCHANGED ctlVars
  /\ UNCHANGED provVars
  /\ UNCHANGED pageVars

\* ------------------------------------------------------------- the provider
MaxSockets == 4   \* WebSocket objects the provider constructs in a run

\* the server URLs of the two versions of the mount effect (part_003:208,
\* useWebSocket.jsx:185)
ServerUrls == {"ws://localhost:8080", "wss://any-fvzm.onrender.com"}
\* the codes a close event can carry: normal closure, going away, no status
\* received, abnormal closure
CloseCodes == {1000, 1001, 1005, 1006}
\* the codes ws.onclose reconnects for (part_003:113)
ReconnectCodes == {1006, 1001}

\* the provider after its first render (part_003:16-24), no effect run yet
ProviderInit ==
  [isConnected |-> FALSE, isConnecting |-> FALSE,
   wsRef |-> 0,            \* wsRef.current: a socket number, 0 for null
   reconnectTimer |-> 0,   \* reconnectTimer.current: a timer id, 0 for null
   sockets |-> <<>>,       \* every WebSocket constructed, by number
   timers |-> <<>>,        \* the pending setTimeout calls, in the order set
   timerIds |-> 0,         \* the timer ids handed out
   phase |-> "new",        \* "new", "mounted", "remounted", "gone"
   last |-> [type |-> "render", socket |-> 0, code |-> 0]]

\* new WebSocket(serverUrl); established: the connection was established and
\* has not failed
NewSocket(serverUrl) ==
  [readyState |-> "CONNECTING", url |-> serverUrl, established |-> FALSE]

\* ws.close() on socket s: a socket that is connecting or open starts to
\* close, one that is closing or closed stays as it is
CloseSocket(p, s) ==
  IF p.sockets[s].readyState \in {"CONNECTING", "OPEN"}
  THEN [p EXCEPT !.sockets[s].readyState = "CLOSING"]
  ELSE p

\* clearTimeout(id)
ClearTimeout(timers, id) == SelectSeq(timers, LAMBDA t : t.id /= id)

\* connect(serverUrl) (part_003:60-127) up to the end of the call
ProviderConnect(p, serverUrl) ==
  LET p1 == IF p.wsRef /= 0 THEN CloseSocket(p, p.wsRef) ELSE p
  IN [p1 EXCEPT !.isConnecting = TRUE,
                !.sockets = Append(@, NewSocket(serverUrl)),
                !.wsRef = Len(p1.sockets) + 1]

\* disconnect() (part_003:177-194)
ProviderDisconnect(p) ==
  LET p1 == IF p.wsRef /= 0
            THEN [CloseSocket(p, p.wsRef) EXCEPT !.wsRef = 0]
            ELSE p
  IN [p1 EXCEPT !.isConnected = FALSE,
                !.isConnecting = FALSE,
                !.timers = IF p.reconnectTimer /= 0
                           THEN ClearTimeout(@, p.reconnectTimer) ELSE @,
                !.reconnectTimer = 0]

\* mutant of OnOpen: the reconnect timer is left running
OnOpenKeepsTimer(p) ==
  [p EXCEPT !.isConnected = TRUE, !.isConnecting = FALSE]

\* ws.onopen (part_003:74-87)
OnOpen(p) ==
  [p EXCEPT !.isConnected = TRUE,
            !.isConnecting = FALSE,
            !.timers = IF p.reconnectTimer /= 0
                       THEN ClearTimeout(@, p.reconnectTimer) ELSE @,
            !.reconnectTimer = 0]

\* ws.onclose of socket s with event.code = code (part_003:108-117)
OnClose(p, s, code) ==
  IF code \in ReconnectCodes
  THEN [p EXCEPT !.isConnected = FALSE,
                 !.timerIds = @ + 1,
                 !.timers = Append(@, [id |-> p.timerIds + 1,
                                       url |-> p.sockets[s].url]),
                 !.reconnectTimer = p.timerIds + 1]
  ELSE [p EXCEPT !.isConnected = FALSE]

\* the mount effect (part_003:206-209)
ProviderMount(serverUrl) ==
  /\ provider.phase = "new"
  /\ provider' = [ProviderConnect(provider, serverUrl) EXCEPT
                    !.phase = "mounted",
                    !.last = [type |-> "mount", socket |-> 1, code |-> 0]]
  /\ UNCHANGED vars
  /\ UNCHANGED orchVars
  /\ UNCHANGED ctlVars
  /\ UNCHANGED pageVars

\* React.StrictMode (SessionManagement.jsx:505-514) runs the cleanup of every
\* effect once after the first mount and then the effects again: disconnect()
\* (part_003:199-203), then connect (206-209), with the same refs
StrictRemount ==
  /\ provider.phase = "mounted"
  /\ provider.last.type = "mount"
  /\ Len(provider.sockets) < MaxSockets
  /\ provider' = [ProviderConnect(ProviderDisconnect(provider),
                                  provider.sockets[1].url) EXCEPT
                    !.phase = "remounted",
                    !.last = [type |-> "remount",
                              socket |-> Len(provider.sockets) + 1, code |-> 0]]
  /\ UNCHANGED vars
  /\ UNCHANGED orchVars
  /\ UNCHANGED ctlVars
  /\ UNCHANGED pageVars

\* the provider unmounts: the cleanup calls disconnect() (part_003:199-203)
ProviderUnmount ==
  /\ provider.phase \in {"mounted", "remounted"}
  /\ provider' = [ProviderDisconnect(provider) EXCEPT
                    !.phase = "gone",
                    !.last = [type |-> "disconnect", socket |-> provider.wsRef,
                              code |-> 0]]
  /\ UNCHANGED vars
  /\ UNCHANGED orchVars
  /\ UNCHANGED ctlVars
  /\ UNCHANGED pageVars

\* the connection of socket s is established
SocketOpen(s) ==
  /\ s \in 1..Len(provider.sockets)
  /\ provider.sockets[s].readyState = "CONNECTING"
  /\ provider' = [OnOpen([provider EXCEPT !.sockets[s].readyState = "OPEN",
                                          !.sockets[s].established = TRUE]) EXCEPT
                    !.last = [type |-> "open", socket |-> s, code |-> 0]]
  /\ UNCHANGED vars
  /\ UNCHANGED orchVars
  /\ UNCHANGED ctlVars
  /\ UNCHANGED pageVars

\* the connection of socket s fails: ws.onerror (part_003:119-122); the close
\* event follows
SocketError(s) ==
  /\ s \in 1..Len(provider.sockets)
  /\ provider.sockets[s].readyState \in {"CONNECTING", "OPEN"}
  /\ provider' = [provider EXCEPT
                    !.sockets[s].readyState = "CLOSING",
                    !.sockets[s].established = FALSE,
                    !.isConnected = FALSE,
                    !.last = [type |-> "error", socket |-> s, code |-> 0]]
  /\ UNCHANGED vars
  /\ UNCHANGED orchVars
  /\ UNCHANGED ctlVars
  /\ UNCHANGED pageVars

\* the codes the close event of a socket can carry: a connection that was
\* not established, or that failed, closes with 1006
PossibleCodes(socket) == IF socket.established THEN CloseCodes ELSE {1006}

\* socket s is closed, by the server, by the network or after ws.close()
SocketClose(s, code) ==
  /\ s \in 1..Len(provider.sockets)
  /\ provider.sockets[s].readyState /= "CLOSED"
  /\ code \in PossibleCodes(provider.sockets[s])
  /\ provider' = [OnClose([provider EXCEPT !.sockets[s].readyState = "CLOSED"],
                          s, code) EXCEPT
                    !.last = [type |-> "close", socket |-> s, code |-> code]]
  /\ UNCHANGED vars
  /\ UNCHANGED orchVars
  /\ UNCHANGED ctlVars
  /\ UNCHANGED pageVars

\* the oldest pending reconnect timer fires: () => connect(serverUrl)
\* (part_003:115)
ReconnectTimer ==
  /\ provider.timers /= <<>>
  /\ Len(provider.sockets) < MaxSockets
  /\ provider' = [ProviderConnect([provider EXCEPT !.timers = Tail(@)],
                                  Head(provider.timers).url) EXCEPT
                    !.last = [type |-> "timer",
                              socket |-> Len(provider.sockets) + 1, code |-> 0]]
  /\ UNCHANGED vars
  /\ UNCHANGED orchVars
  /\ UNCHANGED ctlVars
  /\ UNCHANGED pageVars

\* the provider never mounted: its side in the runs of the registry, the
\* orchestrator and the remote control
ProviderUnused == provider = ProviderInit

\* ------------------------------------------------------------- the host's page
\* the transport of the host in the runs of the host with the registry
HostWs == 1

\* the page as first rendered (SessionManagement.jsx:16-24), nothing sent
PageInit ==
  [mediaStream |-> FALSE,   \* a capture source is selected
   started |-> FALSE,       \* createSession was called
   toRegistry |-> <<>>,     \* sent by the page or the hook, not handled yet
   toHost |-> <<>>,         \* sent by the registry to the host, not delivered
   offered |-> {}]          \* history: transports an offer was forwarded to

\* the page never used: its side in the runs of one component alone
PageUnused == page = PageInit

\* what sendMessage puts on the wire for a message of the hook
\* (part_001:406-411)
WireMessage(m) ==
  [type |-> m.type, sessionId |-> m.sessionId, targetId |-> m.targetId,
   senderId |-> undefined, signal |-> "sdp"]
Wire(out) == [i \in 1..Len(out) |-> WireMessage(out[i])]

\* the message the hook gets for a message of the registry: data.senderId
\* and data.clientId are undefined when the registry put none
HookMessage(msg, id) ==
  [id |-> id, type |-> msg.type,
   senderId |-> IF "senderId" \in DOMAIN msg THEN msg.senderId ELSE undefined,
   clientId |-> IF "clientId" \in DOMAIN msg THEN msg.clientId ELSE undefined]

\* of what a step of the registry sent: the messages for the host, in order
ToHost(sends) ==
  LET forHost == SelectSeq(sends, LAMBDA s : s.to = HostWs)
  IN [i \in 1..Len(forHost) |-> forHost[i].msg]
\* of what a step of the registry sent: the transports an offer went to
OfferedTo(sends) ==
  {sends[i].to : i \in {j \in 1..Len(sends) : sends[j].msg.type = "offer"}}

\* the page after a step of the registry that sent sends
Received(pg, sends) ==
  [pg EXCEPT !.toHost = @ \o ToHost(sends),
             !.offered = @ \cup OfferedTo(sends)]

\* a client's transport sends join-session
SysJoinSession(ws, data, clientId) ==
  /\ ws /= HostWs
  /\ readyState[ws] = "OPEN"
  /\ data.type = "join-session"
  /\ data.sessionId \in NamedSessionIds
  /\ IF Has(sessions, data.sessionId)
     THEN /\ creates + joins < MaxRequests
          /\ clientId \in {ClientIdNames[i] : i \in 1..(joins + 1)}
          /\ joins' = joins + 1
     ELSE /\ clientId = ClientIdNames[1]
          /\ joins' = joins
  /\ sessions' = JoinSessions(ws, data, clientId)
  /\ wsClientId' = JoinClientId(ws, data, clientId)
  /\ sent' = JoinSends(ws, data, clientId)
  /\ event' = [type |-> data.type, ws |-> ws]
  /\ page' = Received(page, JoinSends(ws, data, clientId))
  /\ UNCHANGED <<readyState, terminated, creates>>
  /\ UNCHANGED orchVars
  /\ UNCHANGED ctlVars
  /\ UNCHANGED provVars

\* a client's transport closes
SysClose(ws) ==
  /\ ws /= HostWs
  /\ readyState[ws] = "OPEN"
  /\ readyState' = [readyState EXCEPT ![ws] = "CLOSED"]
  /\ sessions' = CloseSessions(ws)
  /\ sent' = CloseSends(ws, SessionKeys)
  /\ terminated' = terminated \cup {s \in DOMAIN sessions : sessions[s].hostWs = ws}
  /\ event' = [type |-> "close", ws |-> ws]
  /\ page' = Received(page, CloseSends(ws, SessionKeys))
  /\ UNCHANGED <<wsClientId, creates, joins>>
  /\ UNCHANGED orchVars
  /\ UNCHANGED ctlVars
  /\ UNCHANGED provVars

\* the registry handles the next message of the host: create-session
SysHostCreateSession(sessionId) ==
  /\ page.toRegistry /= <<>>
  /\ Head(page.toRegistry).type = "create-session"
  /\ readyState[HostWs] = "OPEN"
  /\ creates + joins < MaxRequests
  /\ sessionId \in {SessionIdNames[i] : i \in 1..(creates + 1)}
  /\ creates' = creates + 1
  /\ sessions' = Set(sessions, sessionId, NewSession(HostWs))
  /\ sent' = <<Send(HostWs, [type |-> "session-created", sessionId |-> sessionId])>>
  /\ event' = [type |-> "create-session", ws |-> HostWs]
  /\ page' = [Received(page, <<Send(HostWs, [type |-> "session-created",
                                             sessionId |-> sessionId])>>)
                EXCEPT !.toRegistry = Tail(@)]
  /\ UNCHANGED <<wsClientId, readyState, terminated, joins>>
  /\ UNCHANGED orchVars
  /\ UNCHANGED ctlVars
  /\ UNCHANGED provVars

\* the session map after the registry handled message data of the host
HostSessions(data) ==
  CASE data.type = "approve-client" -> ApproveSessions(HostWs, data)
    [] data.type = "reject-client" -> RejectSessions(HostWs, data)
    [] OTHER -> sessions
\* what the registry sends when it handles message data of the host
HostSends(data) ==
  CASE data.type = "approve-client" -> ApproveSends(HostWs, data)
    [] data.type = "reject-client" -> RejectSends(HostWs, data)
    [] data.type \in SignalTypes -> SignalSends(HostWs, data)
    [] OTHER -> <<>>

\* the registry handles the next message of the host: approve-client,
\* reject-client or offer
SysHostMessage(type) ==
  /\ page.toRegistry /= <<>>
  /\ Head(page.toRegistry).type = type
  /\ type \in {"approve-client", "reject-client", "offer"}
  /\ readyState[HostWs] = "OPEN"
  /\ sessions' = HostSessions(Head(page.toRegistry))
  /\ sent' = HostSends(Head(page.toRegistry))
  /\ event' = [type |-> type, ws |-> HostWs]
  /\ page' = [Received(page, HostSends(Head(page.toRegistry)))
                EXCEPT !.toRegistry = Tail(@)]
  /\ UNCHANGED <<wsClientId, readyState, terminated, creates, joins>>
  /\ UNCHANGED orchVars
  /\ UNCHANGED ctlVars
  /\ UNCHANGED provVars

\* the next message of the registry reaches the page, which passes it to the
\* hook (SessionManagement.jsx:55-62); what the hook sends goes on the wire
SysDeliver ==
  /\ page.toHost /= <<>>
  /\ arrivals < MaxArrivals
  /\ hook' = Effects(HandleInTurn(Fresh(hook),
                                  <<HookMessage(Head(page.toHost), arrivals + 1)>>))
  /\ arrivals' = arrivals + 1
  /\ step' = [type |-> "message",
              data |-> HookMessage(Head(page.toHost), arrivals + 1), pc |-> 0]
  /\ page' = [page EXCEPT !.toHost = Tail(@),
                          !.toRegistry = @ \o Wire(hook'.out)]
  /\ UNCHANGED <<isHost, wiring, uiCalls>>
  /\ UNCHANGED vars
  /\ UNCHANGED ctlVars
  /\ UNCHANGED provVars

\* the await of suspended call i of the hook returns
SysResume(i) ==
  /\ i \in 1..Len(hook.tasks)
  /\ \A j \in 1..(i - 1) : hook.tasks[j].pc /= hook.tasks[i].pc
  /\ LET t == hook.tasks[i]
         h0 == [Fresh(hook) EXCEPT !.tasks =
                  SubSeq(@, 1, i - 1) \o SubSeq(@, i + 1, Len(@))]
         h1 == Continue(h0, t)
     IN /\ hook' = Effects(IF Len(h1.tasks) > Len(h0.tasks) THEN h1
                           ELSE HandleInTurn(h1, t.rest))
        /\ step' = [type |-> t.op, data |-> t.data, pc |-> t.pc]
  /\ page' = [page EXCEPT !.toRegistry = @ \o Wire(hook'.out)]
  /\ UNCHANGED <<isHost, wiring, arrivals, uiCalls>>
  /\ UNCHANGED vars
  /\ UNCHANGED ctlVars
  /\ UNCHANGED provVars

\* createSession (SessionManagement.jsx:80-84)
PageCreateSession ==
  /\ ~page.started
  /\ readyState[HostWs] = "OPEN"
  /\ page' = [page EXCEPT !.started = TRUE,
                          !.toRegistry = Append(@, [type |-> "create-session"])]
  /\ hook' = Fresh(hook)
  /\ step' = [type |-> "createSession", data |-> NoData, pc |-> 0]
  /\ UNCHANGED <<isHost, wiring, arrivals, uiCalls>>
  /\ UNCHANGED vars
  /\ UNCHANGED ctlVars
  /\ UNCHANGED provVars

\* handleSourceSelected (SessionManagement.jsx:150-152)
PageSourceSelected ==
  /\ ~page.mediaStream
  /\ page' = [page EXCEPT !.mediaStream = TRUE]
  /\ hook' = Fresh(hook)
  /\ step' = [type |-> "handleSourceSelected", data |-> NoData, pc |-> 0]
  /\ UNCHANGED <<isHost, wiring, arrivals, uiCalls>>
  /\ UNCHANGED vars
  /\ UNCHANGED ctlVars
  /\ UNCHANGED provVars

\* approveClient(clientId, sessionId) for a listed pending client
\* (SessionManagement.jsx:95-108), createOffer up to await pc.createOffer()
PageApproveClient(clientId) ==
  /\ uiCalls < MaxUiCalls
  /\ \E i \in 1..Len(hook.pendingClients) : hook.pendingClients[i].id = clientId
  /\ page.mediaStream => Len(hook.pcs) < MaxPcs
  /\ page' = [page EXCEPT !.toRegistry =
                Append(@, [type |-> "approve-client", clientId |-> clientId,
                           sessionId |-> joinCode])]
  /\ hook' = IF page.mediaStream
             THEN LET h1 == CreatePeerConnection(Fresh(hook), clientId)
                  IN Effects([h1 EXCEPT !.tasks =
                                Append(@, Task("createOffer", PcOf(h1, clientId),
                                               NoData, <<>>))])
             ELSE [Fresh(hook) EXCEPT !.alerts = <<"select-screen">>]
  /\ uiCalls' = uiCalls + 1
  /\ step' = [type |-> "approveClient", data |-> [NoData EXCEPT !.clientId = clientId],
              pc |-> IF page.mediaStream THEN Len(hook.pcs) + 1 ELSE 0]
  /\ UNCHANGED <<isHost, wiring, arrivals>>
  /\ UNCHANGED vars
  /\ UNCHANGED ctlVars
  /\ UNCHANGED provVars

\* rejectClient(clientId, sessionId) for a listed pending client
\* (SessionManagement.jsx:110-112)
PageRejectClient(clientId) ==
  /\ uiCalls < MaxUiCalls
  /\ \E i \in 1..Len(hook.pendingClients) : hook.pendingClients[i].id = clientId
  /\ page' = [page EXCEPT !.toRegistry =
                Append(@, [type |-> "reject-client", clientId |-> clientId,
                           sessionId |-> joinCode])]
  /\ hook' = Fresh(hook)
  /\ uiCalls' = uiCalls + 1
  /\ step' = [type |-> "rejectClient", data |-> [NoData EXCEPT !.clientId = clientId],
              pc |-> 0]
  /\ UNCHANGED <<isHost, wiring, arrivals>>
  /\ UNCHANGED vars
  /\ UNCHANGED ctlVars
  /\ UNCHANGED provVars

\* no data channel yet, with either version of setupDataChannel
ControlMounted ==
  /\ control = ControlInit
  /\ channelSetup \in {"part_001", "App.jsx"}

\* the remote control never used: its side in the runs of the registry and
\* of the orchestrator
ControlUnused ==
  /\ control = ControlInit
  /\ channelSetup = "part_001"

OrchInit ==
  /\ RegistryInit
  /\ ControlUnused
  /\ ProviderUnused
  /\ PageUnused
  /\ isHost \in BOOLEAN
  /\ wiring \in {"subscribe", "ipc"}
  /\ hook = [HookInit EXCEPT !.listeners =
               IF wiring = "ipc" THEN <<FALSE>> ELSE <<>>]
  /\ arrivals = 0
  /\ uiCalls = 0
  /\ step = [type |-> "mount", data |-> NoData, pc |-> 0]

OrchNext ==
  \/ \E data \in InboundMessages : Deliver(data)
  \/ \E i \in 1..MaxArrivals + MaxUiCalls : Resume(i)
  \/ \E clientId \in PeerIds : CreateOffer(clientId)
  \/ \E clientId \in PeerIds : RevokePeer(clientId)
  \/ ResetSession
  \/ \E p \in 1..MaxPcs, state \in {"connecting", "connected", "failed", "disconnected"} :
       ConnectionStateChange(p, state)
  \/ \E p \in 1..MaxPcs : OnDataChannel(p)
  \/ \E p \in 1..MaxPcs : OnTrack(p)
  \/ \E p \in 1..MaxPcs : ThirtySeconds(p)
  \/ WsClose

\* the hook mounted and never used: the participant's side in the runs of
\* the registry alone
Unmounted ==
  /\ isHost = FALSE
  /\ wiring = "subscribe"
  /\ hook = HookInit
  /\ arrivals = 0
  /\ uiCalls = 0
  /\ step = [type |-> "mount", data |-> NoData, pc |-> 0]

\* the registry as constructed (main.js:86-88) beside an unused participant
Init ==
  /\ RegistryInit
  /\ Unmounted
  /\ ControlUnused
  /\ ProviderUnused
  /\ PageUnused

\* ------------------------------------------------------------- messages
\* the messages a transport can send in the current state
JoinMessages == [type : {"join-session"}, sessionId : NamedSessionIds]
ApproveMessages ==
  [type : {"approve-client"}, sessionId : NamedSessionIds,
   clientId : NamedClientIds]
RejectMessages ==
  [type : {"reject-client"}, sessionId : NamedSessionIds,
   clientId : NamedClientIds]
\* the app's own clients put no senderId in what they send (renderer App.jsx 171-176,
\* 244-250); a payload that claims one is in RelayPayloads below
ClientConnectedMessages ==
  [type : {"client-connected"}, sessionId : NamedSessionIds, targetId : {host},
   senderId : {undefined}, status : {"connected"}]
\* what revokePeer of the host page sends (SessionManagement.jsx:117-123)
PeerDisconnectedMessages ==
  [type : {"peer-disconnected"}, clientId : NamedClientIds,
   sessionId : NamedSessionIds]
SignalMessages ==
  [type : SignalTypes, sessionId : NamedSessionIds,
   targetId : NamedClientIds \cup {host},
   senderId : {undefined}, signal : {"sdp"}]

Next ==
  \/ \E ws \in Transports : Connection(ws)
  \/ \E ws \in Transports, sessionId \in NamedSessionIds :
       CreateSession(ws, sessionId)
  \/ \E ws \in Transports, data \in JoinMessages, clientId \in NamedClientIds :
       JoinSession(ws, data, clientId)
  \/ \E ws \in Transports, data \in ApproveMessages : ApproveClient(ws, data)
  \/ \E ws \in Transports, data \in RejectMessages : RejectClient(ws, data)
  \/ \E ws \in Transports, data \in ClientConnectedMessages :
       ClientConnected(ws, data)
  \/ \E ws \in Transports, data \in SignalMessages : Signal(ws, data)
  \/ \E ws \in Transports : Close(ws)
  \/ \E ws \in Transports, raw \in MalformedTexts : Malformed(ws, raw)
  \/ \E ws \in Transports, data \in PeerDisconnectedMessages :
       Unhandled(ws, data)

Spec == Init /\ [][Next]_allVars

\* one participant's orchestrator alone: the registry stays as constructed
OrchSpec == OrchInit /\ [][OrchNext]_allVars

\* one participant's remote control alone, with the data channels the
\* orchestrator makes, opens and closes for it
ControlSpecInit ==
  /\ RegistryInit
  /\ isHost \in BOOLEAN
  /\ wiring = "subscribe"
  /\ hook = HookInit
  /\ arrivals = 0
  /\ uiCalls = 0
  /\ step = [type |-> "mount", data |-> NoData, pc |-> 0]
  /\ ControlMounted
  /\ ProviderUnused
  /\ PageUnused

ControlNext ==
  \/ \E peerId \in PeerIds : ToggleControl(peerId)
  \/ \E targetId \in TargetIds : CreateDataChannel(targetId)
  \/ \E ch \in 1..MaxChannels : ChannelOpen(ch)
  \/ \E clientId \in PeerIds : RemovePeerChannel(clientId)
  \/ ResetChannels
  \/ \E ch \in 1..MaxChannels, type \in ChannelMessageTypes : ChannelMessage(ch, type)

ControlSpec == ControlSpecInit /\ [][ControlNext]_allVars

\* one participant's signaling connection alone
ProviderSpecInit ==
  /\ RegistryInit
  /\ Unmounted
  /\ ControlUnused
  /\ ProviderUnused
  /\ PageUnused

ProviderNext ==
  \/ \E serverUrl \in ServerUrls : ProviderMount(serverUrl)
  \/ StrictRemount
  \/ ProviderUnmount
  \/ \E s \in 1..MaxSockets : SocketOpen(s)
  \/ \E s \in 1..MaxSockets : SocketError(s)
  \/ \E s \in 1..MaxSockets, code \in CloseCodes : SocketClose(s, code)
  \/ ReconnectTimer

ProviderSpec == ProviderSpecInit /\ [][ProviderNext]_allVars

\* the host with the registry: the host's page and hook on transport HostWs,
\* which stays connected, and the clients' transports
SystemInit ==
  /\ RegistryInit
  /\ isHost = TRUE
  /\ wiring = "subscribe"
  /\ hook = HookInit
  /\ arrivals = 0
  /\ uiCalls = 0
  /\ step = [type |-> "mount", data |-> NoData, pc |-> 0]
  /\ ControlUnused
  /\ ProviderUnused
  /\ PageUnused

SystemNext ==
  \/ \E ws \in Transports : Connection(ws)
  \/ \E ws \in Transports, data \in JoinMessages, clientId \in NamedClientIds :
       SysJoinSession(ws, data, clientId)
  \/ \E ws \in Transports : SysClose(ws)
  \/ \E sessionId \in NamedSessionIds : SysHostCreateSession(sessionId)
  \/ \E type \in {"approve-client", "reject-client", "offer"} :
       SysHostMessage(type)
  \/ SysDeliver
  \/ \E i \in 1..MaxArrivals + MaxUiCalls : SysResume(i)
  \/ PageCreateSession
  \/ PageSourceSelected
  \/ \E clientId \in NamedClientIds : PageApproveClient(clientId)
  \/ \E clientId \in NamedClientIds : PageRejectClient(clientId)

SystemSpec == SystemInit /\ [][SystemNext]_allVars

\* ------------------------------------------------------------- the claims
\* vocabulary of the claims, stated on the registry and not on the guards of
\* the handlers
IsHostOf(ws, sessionId) ==
  sessionId \in DOMAIN sessions /\ sessions[sessionId].hostWs = ws
PendingIds(sessionId) == DOMAIN sessions[sessionId].pendingClients
ApprovedIds(sessionId) == DOMAIN sessions[sessionId].approvedClients
\* the memberships of a session as (list, id, transport) triples
Memberships(session) ==
  {<<"pending", c, session.pendingClients[c]>> : c \in DOMAIN session.pendingClients}
  \cup
  {<<"approved", c, session.approvedClients[c]>> : c \in DOMAIN session.approvedClients}
IsApprovedClientOf(ws, sessionId) ==
  /\ sessionId \in DOMAIN sessions
  /\ \E c \in ApprovedIds(sessionId) : sessions[sessionId].approvedClients[c] = ws
Sent(seq) == {seq[i] : i \in 1..Len(seq)}
Count(seq, T) == Cardinality({i \in 1..Len(seq) : seq[i] \in T})

\* C1: in every reachable state every session has one host transport and no
\* client id is in both pendingClients and approvedClients of a session.
C1_OneHostDisjointLists ==
  \A s \in DOMAIN sessions :
    /\ sessions[s].hostWs \in Transports
    /\ PendingIds(s) \cap ApprovedIds(s) = {}

\* C2: create-session registers the caller under a code that no active
\* session has, leaves every active session as it was, and sends
\* session-created{sessionId} to the caller only.
C2_CreateTakesFreshCode ==
  [][event'.type = "create-session" =>
       \A sessionId \in NamedSessionIds :
         CreateSession(event'.ws, sessionId) =>
           /\ sessionId \notin DOMAIN sessions
           /\ \A s \in DOMAIN sessions :
                s \in DOMAIN sessions' /\ sessions'[s] = sessions[s]
           /\ sessionId \in DOMAIN sessions'
           /\ sessions'[sessionId].hostWs = event'.ws
           /\ sent' = <<Send(event'.ws, [type |-> "session-created",
                                         sessionId |-> sessionId])>>]_vars

\* C3: approve-client from a caller that is not the host of the named session,
\* or for a client id that is not pending there, changes nothing in the
\* registry and sends nothing.
C3_ApproveIgnored ==
  [][event'.type = "approve-client" =>
       \A data \in ApproveMessages :
         (/\ ApproveClient(event'.ws, data)
          /\ ~(/\ IsHostOf(event'.ws, data.sessionId)
               /\ data.clientId \in PendingIds(data.sessionId)))
         => /\ sessions' = sessions
            /\ wsClientId' = wsClientId
            /\ sent' = <<>>]_vars

\* C3 witness: an approve-client was ignored although some session had a
\* pending client: the caller was not its host, or named another id.
C3_Witness ==
  /\ event.type = "approve-client"
  /\ sent = <<>>
  /\ \E s \in DOMAIN sessions :
       PendingIds(s) /= {} /\ sessions[s].hostWs /= event.ws

\* C4: approve-client from the host for a pending id moves that id with its
\* transport from pending to approved, sends session-joined{sessionId,
\* clientId} to that client and then peer-approved{clientId} to the host, and
\* leaves every other membership of the session as it was.
C4_ApproveMovesOneClient ==
  [][event'.type = "approve-client" =>
       \A data \in ApproveMessages :
         (/\ ApproveClient(event'.ws, data)
          /\ IsHostOf(event'.ws, data.sessionId)
          /\ data.clientId \in PendingIds(data.sessionId))
         => LET session == sessions[data.sessionId]
                clientWs == session.pendingClients[data.clientId]
            IN /\ Memberships(sessions[data.sessionId])' =
                    (Memberships(session) \ {<<"pending", data.clientId, clientWs>>})
                    \cup {<<"approved", data.clientId, clientWs>>}
               /\ sessions'[data.sessionId].hostWs = event'.ws
               /\ \A s \in DOMAIN sessions \ {data.sessionId} :
                    s \in DOMAIN sessions' /\ sessions'[s] = sessions[s]
               /\ sent' = <<Send(clientWs, [type |-> "session-joined",
                                            sessionId |-> data.sessionId,
                                            clientId |-> data.clientId]),
                            Send(event'.ws, [type |-> "peer-approved",
                                             clientId |-> data.clientId])>>]_vars

\* the payloads a transport can send for a session, a claimed senderId
\* included
RelayPayloads(sessionId, senderIds) ==
  [type : SignalTypes \cup {"client-connected"}, sessionId : {sessionId},
   targetId : NamedClientIds \cup {host}, senderId : senderIds,
   signal : {"sdp"}, status : {"connected"}]
\* what the registry sends when ws sends the payload
RelaySends(ws, data) ==
  IF data.type = "client-connected" THEN ClientConnectedSends(ws, data)
  ELSE SignalSends(ws, data)

\* C5 (the direction to the host): an offer, answer, candidate or
\* client-connected message whose sender transport is an approved client of
\* the session it names, and not the host of that session, is forwarded to
\* the host of that session.
C5_ApprovedClientIsForwarded ==
  [][event'.type \in SignalTypes \cup {"client-connected"} =>
       \A data \in SignalMessages \cup ClientConnectedMessages :
         (/\ Signal(event'.ws, data) \/ ClientConnected(event'.ws, data)
          /\ ~IsHostOf(event'.ws, data.sessionId)
          /\ IsApprovedClientOf(event'.ws, data.sessionId))
         => /\ Len(sent') = 1
            /\ sent'[1].to = sessions[data.sessionId].hostWs
            /\ sent'[1].msg.type = data.type]_vars

\* C6: whatever a payload claims in senderId, targetId or elsewhere, the
\* senderId of a forwarded message is the id the registry holds for the
\* sending transport: 'host' when it is the host of the session, or the
\* client id stored on it at join; two payloads that differ only in the
\* claimed senderId are forwarded alike.
C6_SenderIdIsRegistryAssigned ==
  /\ \A ws \in {w \in Transports : readyState[w] = "OPEN"}, s \in NamedSessionIds :
       \A data \in RelayPayloads(s, {undefined}) :
         LET out == RelaySends(ws, data)
         IN /\ \A m \in Sent(out) :
                 \/ m.msg.senderId = host /\ IsHostOf(ws, s)
                 \/ m.msg.senderId = wsClientId[ws] /\ wsClientId[ws] /= undefined
            /\ \A claimed \in NamedClientIds \cup {host} :
                 RelaySends(ws, [data EXCEPT !.senderId = claimed]) = out
  /\ event.type \in SignalTypes \cup {"client-connected"}
       => \A m \in Sent(sent) :
            m.msg.senderId \in {host, wsClientId[event.ws]}

\* C6 witness: a client's offer, answer or candidate was forwarded to a host
\* that is another transport, tagged with the client's own id.
C6_Witness ==
  /\ event.type \in SignalTypes
  /\ sent /= <<>>
  /\ sent[1].to /= event.ws
  /\ sent[1].msg.senderId = wsClientId[event.ws]

\* a session code for which join-session answers session-not-found and
\* nothing is relayed
Inert(sessionId) ==
  \A ws \in Transports :
    /\ \A clientId \in NamedClientIds :
         JoinSends(ws, [type |-> "join-session", sessionId |-> sessionId], clientId)
           = <<Send(ws, [type |-> "session-not-found"])>>
    /\ \A data \in RelayPayloads(sessionId, {undefined}) :
         RelaySends(ws, data) = <<>>

\* C7 as claimed: once the host of a session has closed, no message naming
\* that session code is relayed and join-session for it yields
\* session-not-found, ever after.
C7_TerminatedCodeStaysInert ==
  \A s \in terminated : Inert(s)

\* C7 as amended: when a host's transport closes, every transport in the
\* pending and approved maps of its session is sent host-disconnected, once
\* per membership, and the session is removed; from then on and for as long
\* as no later create-session registers the same code again, no message
\* naming the code is relayed and join-session for it yields
\* session-not-found.
C7_HostCloseEndsSession ==
  [][/\ event'.type = "close" =>
          (Close(event'.ws) =>
            LET ws == event'.ws
                hosted == {s \in DOMAIN sessions : sessions[s].hostWs = ws}
                notified == {<<s, m>> \in hosted \X UNION {Memberships(sessions[s]) : s \in hosted} :
                               m \in Memberships(sessions[s])}
            IN /\ \A s \in hosted : s \notin DOMAIN sessions'
               /\ \A sm \in notified :
                    Send(sm[2][3], [type |-> "host-disconnected"]) \in Sent(sent')
               /\ Count(sent', {m \in Sent(sent') : m.msg.type = "host-disconnected"})
                    = Cardinality(notified))
     /\ \A s \in terminated' \ DOMAIN sessions' : Inert(s)']_vars

\* C7 witness: a host has closed, its clients were sent host-disconnected
\* and the session is gone.
C7_Witness ==
  /\ event.type = "close"
  /\ \E i \in 1..Len(sent) :
       sent[i].msg.type = "host-disconnected" /\ sent[i].to /= event.ws
  /\ terminated \ DOMAIN sessions /= {}

\* the memberships of transport ws in the sessions it does not host
ClientMemberships(ws) ==
  {sm \in (DOMAIN sessions) \X UNION {Memberships(sessions[s]) : s \in DOMAIN sessions} :
     /\ sessions[sm[1]].hostWs /= ws
     /\ sm[2] \in Memberships(sessions[sm[1]])
     /\ sm[2][3] = ws}
\* the notice the host gets for a membership that ended
DisconnectNotice(sm) ==
  Send(sessions[sm[1]].hostWs,
       [type |-> IF sm[2][1] = "pending" THEN "client-disconnected"
                 ELSE "peer-disconnected",
        clientId |-> sm[2][2]])

C9_JoinUnknownSession ==
  [][event'.type = "join-session" =>
       \A data \in JoinMessages, clientId \in NamedClientIds :
         (/\ JoinSession(event'.ws, data, clientId)
          /\ data.sessionId \notin DOMAIN sessions)
         => /\ sent' = <<Send(event'.ws, [type |-> "session-not-found"])>>
            /\ sessions' = sessions
            /\ wsClientId' = wsClientId]_vars

\* C9 witness: a transport that never joined anything was answered
\* session-not-found while another session was active.
C9_Witness ==
  /\ event.type = "join-session"
  /\ sent = <<Send(event.ws, [type |-> "session-not-found"])>>
  /\ wsClientId[event.ws] = undefined
  /\ sessions /= EmptyMap

\* C10: join-session on an existing session records the caller as pending
\* under a generated client id that no pending or approved client of that
\* session has, sends client-request-join{clientId, sessionId} to the host of
\* that session only, and nothing to the caller.
C10_JoinUnderNewId ==
  [][event'.type = "join-session" =>
       \A data \in JoinMessages, clientId \in NamedClientIds :
         (/\ JoinSession(event'.ws, data, clientId)
          /\ data.sessionId \in DOMAIN sessions)
         => LET ws == event'.ws
            IN /\ clientId \notin PendingIds(data.sessionId)
                                    \cup ApprovedIds(data.sessionId)
               /\ Memberships(sessions[data.sessionId])' =
                    Memberships(sessions[data.sessionId])
                    \cup {<<"pending", clientId, ws>>}
               /\ sent' = <<Send(sessions[data.sessionId].hostWs,
                                 [type |-> "client-request-join",
                                  clientId |-> clientId,
                                  sessionId |-> data.sessionId])>>
               /\ sessions[data.sessionId].hostWs /= ws
                    => \A m \in Sent(sent') : m.to /= ws]_vars

\* C11: reject-client from the host of the named session for an id pending
\* there removes that id from pending, leaves approved as it was, and sends
\* session-rejected to the transport that was pending under the id; from any
\* other caller or for an id that is not pending, the registry is unchanged
\* and nothing is sent.
C11_RejectRemovesPending ==
  [][event'.type = "reject-client" =>
       \A data \in RejectMessages :
         RejectClient(event'.ws, data) =>
           IF /\ IsHostOf(event'.ws, data.sessionId)
              /\ data.clientId \in PendingIds(data.sessionId)
           THEN LET session == sessions[data.sessionId]
                    clientWs == session.pendingClients[data.clientId]
                IN /\ DOMAIN sessions' = DOMAIN sessions
                   /\ sessions'[data.sessionId].pendingClients =
                        [c \in PendingIds(data.sessionId) \ {data.clientId} |->
                           session.pendingClients[c]]
                   /\ sessions'[data.sessionId].approvedClients =
                        session.approvedClients
                   /\ sessions'[data.sessionId].hostWs = session.hostWs
                   /\ \A s \in DOMAIN sessions \ {data.sessionId} :
                        sessions'[s] = sessions[s]
                   /\ sent' = <<Send(clientWs, [type |-> "session-rejected",
                                                sessionId |-> data.sessionId])>>
           ELSE /\ sessions' = sessions
                /\ wsClientId' = wsClientId
                /\ sent' = <<>>]_vars

\* C11 witness: a host has rejected a pending client of another transport, and
\* the session has no approved client.
C11_Witness ==
  /\ event.type = "reject-client"
  /\ Len(sent) = 1
  /\ sent[1].msg.type = "session-rejected"
  /\ sent[1].to /= event.ws
  /\ \E s \in DOMAIN sessions :
       sessions[s].hostWs = event.ws /\ ApprovedIds(s) = {}

\* ------------------------------------------------------------- the claims
\* about the orchestrator
\* the step applied a remote description to connection p
RemoteDescriptionApplied(p) ==
  /\ p \in 1..Len(hook.pcs)
  /\ ~hook.pcs[p].remoteDescription
  /\ hook'.pcs[p].remoteDescription

\* C12: on a host and on a client, a candidate that arrives while the
\* connection of its target has no remote description is appended to the
\* buffer of that target, and the step that applies the remote description
\* (the offer on a client, the answer on a host) applies every buffered
\* candidate of the target to the connection, in arrival order, and leaves
\* the buffer of the target empty.
C12_BufferFlushedWithRemoteDescription ==
  [][/\ \A data \in InboundMessages :
          (/\ Deliver(data)
           /\ wiring = "subscribe"
           /\ data.type = "candidate"
           /\ LET p == PcOf(hook, IF isHost THEN data.senderId ELSE host)
              IN p = 0 \/ ~hook.pcs[p].remoteDescription)
          => LET targetId == IF isHost THEN data.senderId ELSE host
             IN hook'.pendingIceCandidates[targetId] =
                  Append(hook.pendingIceCandidates[targetId], data.id)
     /\ \A p \in 1..MaxPcs :
          RemoteDescriptionApplied(p) =>
            LET targetId == hook.pcs[p].targetId
            IN /\ hook'.pendingIceCandidates[targetId] = <<>>
               /\ hook'.pcs[p].added =
                    hook.pcs[p].added \o hook.pendingIceCandidates[targetId]]_allVars

\* C13: no received candidate is stranded: whenever no handler is suspended
\* and the connection of a target has its remote description, every
\* candidate received for the target has been applied, none is left in the
\* buffer.
C13_NoCandidateStranded ==
  hook.tasks = <<>> =>
    \A targetId \in DOMAIN hook.peerConnectionsRef :
      hook.pcs[PcOf(hook, targetId)].remoteDescription
        => hook.pendingIceCandidates[targetId] = <<>>

\* the ids of a list of messages, in the order of the list
Ids(messages) == [i \in 1..Len(messages) |-> messages[i].id]
\* how often x occurs in a list
Occurrences(seq, x) == Cardinality({i \in 1..Len(seq) : seq[i] = x})
\* s is the beginning of t
IsPrefix(s, t) == Len(s) <= Len(t) /\ SubSeq(t, 1, Len(s)) = s
\* the messages that wait for the handler: in the signaling queue, or in
\* what is left of a drain loop that is suspended
RECURSIVE Rests(_)
Rests(tasks) ==
  IF tasks = <<>> THEN <<>> ELSE Ids(Head(tasks).rest) \o Rests(Tail(tasks))
Waiting(h) == Ids(h.signalingQueue) \o Rests(h.tasks)

\* C14: a queued message is handled exactly once after readiness, in arrival
\* order, and the queue is empty afterwards: a message that waits (in the
\* queue or in a suspended drain) waits once and was not handled yet; the
\* step that makes the session ready with messages queued empties the queue
\* and hands them to the handler in queue order, each at most once, and what
\* it did not hand over yet waits in the suspended drain.
C14_QueuedHandledOnceInOrder ==
  [][LET queued == Ids(hook.signalingQueue)
         waiting == Waiting(hook')
         now == SubSeq(hook'.handled, Len(hook.handled) + 1, Len(hook'.handled))
     IN /\ \A i \in 1..Len(waiting) :
             /\ Occurrences(waiting, waiting[i]) = 1
             /\ Occurrences(hook'.handled, waiting[i]) = 0
        /\ (queued /= <<>> /\ hook'.isSessionReady) =>
             /\ hook'.signalingQueue = <<>>
             /\ IsPrefix(SelectSeq(now, LAMBDA x : Occurrences(queued, x) > 0),
                         queued)
             /\ \A i \in 1..Len(queued) :
                  Occurrences(hook'.handled, queued[i])
                    + Occurrences(waiting, queued[i]) = 1]_allVars

\* C15: the queued messages are handled before any message that arrives
\* after readiness: a message that arrives while a suspended drain loop
\* still has queued messages to handle is not passed to the handler in the
\* step of its arrival.
C15_DrainBeforeNewMessages ==
  [][(step'.type = "message" /\ Rests(hook.tasks) /= <<>>) =>
       Occurrences(hook'.handled, step'.data.id) = 0]_allVars

\* C16: while isSessionReady is false, a message of a kind other than
\* session-created / session-joined is not passed to the handler in the step
\* of its arrival and is in the queue after it; session-created and
\* session-joined are passed to the handler in the step of their arrival and
\* are not in the queue after it.
C16_NotReadyMessagesAreQueued ==
  [][(step'.type = "message" /\ ~hook.isSessionReady) =>
       LET id == step'.data.id
           now == SubSeq(hook'.handled, Len(hook.handled) + 1, Len(hook'.handled))
       IN IF step'.data.type \in LifecycleTypes
          THEN /\ Occurrences(now, id) >= 1
               /\ Occurrences(Ids(hook'.signalingQueue), id) = 0
          ELSE /\ Occurrences(now, id) = 0
               /\ Occurrences(Ids(hook'.signalingQueue), id) >= 1]_allVars

\* the connections the hook owns: the values of peerConnectionsRef
Owned(h) == {h.peerConnectionsRef[t] : t \in DOMAIN h.peerConnectionsRef}

\* C17: immediately after resetConnections every connection the hook owned
\* is closed and the orchestrator state, connecting indicators included,
\* equals the initial state.
C17_ResetRestoresInitialState ==
  [][step'.type = "resetConnections" =>
       /\ \A p \in Owned(hook) : hook'.pcs[p].closed
       /\ HookState(hook') = HookState(HookInit)]_allVars

\* C18: resetConnections is idempotent: in every reachable state, a second
\* call right after a first one leaves the orchestrator state and every
\* connection as the first call left them, and closes nothing.
C18_ResetIsIdempotent ==
  LET once == ResetConnections(Fresh(hook))
      twice == ResetConnections(Fresh(once))
  IN /\ HookState(twice) = HookState(once)
     /\ twice.pcs = once.pcs
     /\ twice.closedNow = {}

\* resetConnections was called with an open connection that was connecting:
\* the call closed it, and a second call finds nothing to close
C18_Witness ==
  /\ step.type = "resetConnections"
  /\ hook.closedNow /= {}
  /\ hook.connectingPeers /= {}
  /\ Owned(hook) = {}

\* the peer that a step of the host evicts: the target of a connection that
\* reports failed or disconnected, or the clientId of a peer-disconnected
\* notice; undefined for any other step
Evicted ==
  IF step'.type \in {"failed", "disconnected"} THEN hook.pcs[step'.pc].targetId
  ELSE IF step'.type = "message" /\ step'.data.type = "peer-disconnected"
       THEN step'.data.clientId
       ELSE undefined
\* the entries of peer q in the peer list, with their status
PeerEntries(h, q) == SelectSeq(h.peers, LAMBDA x : x.id = q)

\* C19: on the host, a failed or disconnected connection of peer p, or a
\* peer-disconnected notice for p, leaves every other peer q as it was: the
\* same connection under q in the map, unchanged and not closed by the step,
\* the same data-channel entry, the same peer-list entry and status.
C19_EvictionLeavesOtherPeers ==
  [][(isHost /\ Evicted /= undefined) =>
       \A q \in PeerIds \ {Evicted} :
         /\ PcOf(hook', q) = PcOf(hook, q)
         /\ PcOf(hook, q) /= 0 =>
              /\ hook'.pcs[PcOf(hook, q)] = hook.pcs[PcOf(hook, q)]
              /\ PcOf(hook, q) \notin hook'.closedNow
         /\ (q \in hook'.dataChannelsRef) = (q \in hook.dataChannelsRef)
         /\ PeerEntries(hook', q) = PeerEntries(hook, q)]_allVars

\* the host evicted a peer after its connection failed or was disconnected
\* while another peer had an open connection, a data channel and an entry in
\* the peer list
C19_Witness ==
  /\ isHost
  /\ step.type \in {"failed", "disconnected"}
  /\ hook.closedNow /= {}
  /\ \E q \in PeerIds :
       /\ PcOf(hook, q) /= 0
       /\ ~hook.pcs[PcOf(hook, q)].closed
       /\ q \in hook.dataChannelsRef
       /\ PeerEntries(hook, q) /= <<>>

\* C20: on a client, when the connection to the host reports failed or
\* disconnected, the step closes every connection the client owned, leaves
\* the session state as resetConnections leaves it (both refs empty, peers,
\* pendingClients, queue and ICE buffer empty, no remote stream, not ready,
\* no session code; nothing is connecting any more) and raises the alert of
\* the lost connection.
C20_ClientLossResetsAll ==
  [][(~isHost /\ step'.type \in {"failed", "disconnected"}) =>
       /\ \A p \in Owned(hook) : hook'.pcs[p].closed
       /\ HookState(hook') = HookState(HookInit)
       /\ hook'.alerts = <<IF step'.type = "failed" THEN "connection-failed"
                           ELSE "connection-lost">>]_allVars

\* a client whose connection to the host had both descriptions set reported
\* disconnected: the connection was closed and the alert raised
C20_Witness ==
  /\ ~isHost
  /\ step.type = "disconnected"
  /\ hook.closedNow /= {}
  /\ hook.alerts /= <<>>
  /\ \E p \in 1..Len(hook.pcs) :
       hook.pcs[p].remoteDescription /\ hook.pcs[p].localDescription

\* C21: when a connection of a client has been connecting for 30 seconds
\* the client is reset as by resetConnections and the timeout alert is
\* raised; on the host the 30 seconds change nothing.
C21_ClientTimeoutResets ==
  [][step'.type = "30s" =>
       IF isHost
       THEN HookState(hook') = HookState(hook) /\ hook'.alerts = <<>>
       ELSE /\ \A p \in Owned(hook) : hook'.pcs[p].closed
            /\ hook'.peerConnectionsRef = EmptyMap
            /\ ~hook'.isSessionReady
            /\ hook'.alerts = <<"connection-timeout">>]_allVars

\* about the remote control
\* the peer at the other end of the channel on which the step's message
\* arrived
Sender == control.channels[control'.last.channel].targetId

\* C22: at the host, an input event that arrives on peer p's control channel
\* is passed to the input injection only if p is in the granted set when it
\* arrives; an input event of a peer that is not granted is discarded.
C22_InputOnlyFromGrantedPeers ==
  [][(isHost /\ control'.last.type = "message"
        /\ control'.last.message \in InputTypes) =>
       (control'.injected /= <<>> =>
          /\ Sender \in control.peersWithControl
          /\ control'.injected = <<control'.last.message>>)]_allVars

\* C23: a cursor-position message that arrives on a control channel is never
\* passed to the input injection, granted or not; on the host it changes at
\* most the cursor entry of the sending peer, on a client nothing.
C23_CursorNeverInjected ==
  [][(control'.last.type = "message"
        /\ control'.last.message = "cursor-position") =>
       /\ control'.injected = <<>>
       /\ control'.peersWithControl = control.peersWithControl
       /\ control'.channels = control.channels
       /\ control'.dataChannelsRef = control.dataChannelsRef
       /\ control'.clientCursors \subseteq control.clientCursors \cup {Sender}
       /\ ~isHost => control'.clientCursors = control.clientCursors]_allVars

\* the host got a cursor position from a peer that has control, on a channel
\* whose handler the remote control assigned: the peer has a cursor entry
\* and nothing was injected
C23_Witness ==
  /\ isHost
  /\ control.last.type = "message"
  /\ control.last.message = "cursor-position"
  /\ LET channel == control.channels[control.last.channel]
     IN /\ channel.onmessage.by = "useRemoteControl"
        /\ channel.targetId \in control.peersWithControl
        /\ channel.targetId \in control.clientCursors
  /\ control.injected = <<>>

\* C24: every connection that is not closed is the one the map holds for
\* its target: there is at most one open connection per target, and a
\* connection that createPeerConnection, removePeer or resetConnections took
\* out of the map is closed.
C24_OnePcPerTarget ==
  \A p \in 1..Len(hook.pcs) :
    ~hook.pcs[p].closed => PcOf(hook, hook.pcs[p].targetId) = p

\* createPeerConnection ran for a target that had an open connection: the
\* step closed the old one and the map holds the new one
C24_Witness ==
  /\ step.type = "createOffer"
  /\ hook.closedNow /= {}
  /\ \A p \in hook.closedNow :
       /\ PcOf(hook, hook.pcs[p].targetId) = Len(hook.pcs)
       /\ ~hook.pcs[Len(hook.pcs)].closed

\* C25: when a connection of the host to peer p reports failed or
\* disconnected, the step closes p's connection, removes p from the peer
\* list and the map, and sends peer-disconnected for p to the registry.
C25_HostEvictsAndNotifies ==
  [][(isHost /\ step'.type \in {"failed", "disconnected"}) =>
       LET p == hook.pcs[step'.pc].targetId
       IN /\ hook'.pcs[step'.pc].closed
          /\ PcOf(hook', p) = 0
          /\ PeerEntries(hook', p) = <<>>
          /\ \E i \in 1..Len(hook'.out) :
               /\ hook'.out[i].type = "peer-disconnected"
               /\ hook'.out[i].clientId = p]_allVars

\* the ids under which transport ws is an approved client of the session
ApprovedIdsOf(ws, sessionId) ==
  {c \in ApprovedIds(sessionId) : sessions[sessionId].approvedClients[c] = ws}

\* C26 (the registry's part): a client-connected message from a transport
\* that is an approved client of the session it names, and not its host, is
\* forwarded to the host of the session and to nobody else, tagged with the
\* id under which that transport is an approved client.
C26_ClientConnectedReachesHost ==
  [][event'.type = "client-connected" =>
       \A data \in ClientConnectedMessages :
         (/\ ClientConnected(event'.ws, data)
          /\ ~IsHostOf(event'.ws, data.sessionId)
          /\ IsApprovedClientOf(event'.ws, data.sessionId))
         => /\ Len(sent') = 1
            /\ sent'[1].to = sessions[data.sessionId].hostWs
            /\ sent'[1].msg.type = "client-connected"
            /\ sent'[1].msg.senderId \in ApprovedIdsOf(event'.ws, data.sessionId)]_allVars

\* C27: a message that does not parse, or whose handling throws, changes
\* nothing: every transport stays as it was, the sender's included, no
\* session is created, changed or removed, no client id is assigned and
\* nothing is sent; the message that follows it on the same transport is
\* handled as the handler of its kind handles it.
C27_MalformedIsDropped ==
  [][/\ event'.type = "malformed" =>
          /\ readyState' = readyState
          /\ readyState'[event'.ws] = "OPEN"
          /\ sessions' = sessions
          /\ wsClientId' = wsClientId
          /\ terminated' = terminated
          /\ sent' = <<>>
     /\ (event.type = "malformed" /\ event'.ws = event.ws) =>
          CASE event'.type = "create-session" ->
                 \E sessionId \in NamedSessionIds : CreateSession(event'.ws, sessionId)
            [] event'.type = "join-session" ->
                 \E data \in JoinMessages, clientId \in NamedClientIds :
                   JoinSession(event'.ws, data, clientId)
            [] event'.type = "approve-client" ->
                 \E data \in ApproveMessages : ApproveClient(event'.ws, data)
            [] event'.type = "reject-client" ->
                 \E data \in RejectMessages : RejectClient(event'.ws, data)
            [] OTHER -> TRUE]_allVars

\* a transport that is the host of a session with an approved client sent a
\* text that does not parse
C27_Witness ==
  /\ event.type = "malformed"
  /\ \E s \in DOMAIN sessions :
       /\ sessions[s].hostWs = event.ws
       /\ ApprovedIds(s) /= {}

\* the messages that tell a participant of a failure, and the alert of each
FailureTypes == {"host-disconnected", "session-rejected", "session-not-found"}

\* C28: every failure is notified, each kind with its own alert: the step in
\* which a failure message arrives raises the alert of its kind or leaves
\* the message waiting for the handler, and no failure message is left
\* waiting when no handler is suspended; the step in which a client's
\* connection fails or is disconnected raises the alert of the lost
\* connection, and the step in which a client has been connecting for 30
\* seconds raises the alert of the timeout.
C28_FailuresAreNotified ==
  /\ (step.type = "message" /\ step.data.type \in FailureTypes) =>
       \/ \E i \in 1..Len(hook.alerts) : hook.alerts[i] = step.data.type
       \/ Occurrences(Waiting(hook), step.data.id) > 0
  /\ hook.tasks = <<>> =>
       \A i \in 1..Len(hook.signalingQueue) :
         hook.signalingQueue[i].type \notin FailureTypes
  /\ (~isHost /\ step.type \in {"failed", "disconnected"}) =>
       hook.alerts = <<IF step.type = "failed" THEN "connection-failed"
                       ELSE "connection-lost">>
  /\ (~isHost /\ step.type = "30s") => hook.alerts = <<"connection-timeout">>

\* the participant holds nothing of a session
NoSessionState(h) ==
  /\ h.currentSessionCode = ""
  /\ ~h.isSessionReady
  /\ h.peers = <<>>
  /\ \A p \in Owned(h) : h.pcs[p].closed
  /\ h.peerConnectionsRef = EmptyMap

\* C29: no participant keeps state of a session that the registry removed
\* with a closed transport: a participant whose own signaling transport
\* closed, and that has no handler suspended, holds nothing of a session; a
\* client that handled host-disconnected holds nothing of a session; a host
\* that handled peer-disconnected for a client has no peer entry and no
\* connection for it.
C29_NoOrphanedState ==
  /\ (step.type = "ws.onclose" /\ hook.tasks = <<>>) => NoSessionState(hook)
  /\ (step.type = "message" /\ step.data.type = "host-disconnected"
        /\ wiring = "subscribe") => NoSessionState(hook)
  /\ (step.type = "message" /\ step.data.type = "peer-disconnected"
        /\ wiring = "subscribe") =>
       /\ PeerEntries(hook, step.data.clientId) = <<>>
       /\ PcOf(hook, step.data.clientId) = 0

\* C30: every event is handled to completion before the next, so the race
\* of approve-client for client c with the close of c's transport ends the
\* same in both orders: after every step no session records a transport
\* that is not open as a pending or approved client; the close of a
\* transport leaves it in no list of any session; and an approve-client that
\* names an id that is not pending changes no session and sends nothing.
C30_ApproveRacesClose ==
  [][/\ \A s \in DOMAIN sessions' :
          \A m \in Memberships(sessions'[s]) : readyState'[m[3]] = "OPEN"
     /\ event'.type = "close" =>
          \A s \in DOMAIN sessions' :
            \A m \in Memberships(sessions'[s]) : m[3] /= event'.ws
     /\ event'.type = "approve-client" =>
          \A data \in ApproveMessages :
            (/\ ApproveClient(event'.ws, data)
             /\ Has(sessions, data.sessionId)
             /\ data.clientId \notin PendingIds(data.sessionId))
            => sessions' = sessions /\ sent' = <<>>]_allVars

\* the transport of an approved client closed after the approval: the host
\* was told peer-disconnected and its session has the id in neither list
C30_Witness ==
  /\ event.type = "close"
  /\ \E i \in 1..Len(sent) :
       /\ sent[i].msg.type = "peer-disconnected"
       /\ \E s \in DOMAIN sessions :
            /\ sessions[s].hostWs = sent[i].to
            /\ sent[i].msg.clientId \notin PendingIds(s) \cup ApprovedIds(s)

\* the fields that resetConnections clears, as it leaves them
ResetState(h) ==
  /\ h.peerConnectionsRef = EmptyMap
  /\ h.dataChannelsRef = {}
  /\ h.peers = <<>>
  /\ h.pendingClients = <<>>
  /\ ~h.remoteStream
  /\ ~h.isSessionReady
  /\ h.currentSessionCode = ""
  /\ h.signalingQueue = <<>>
  /\ h.pendingIceCandidates = NoCandidates
\* the awaits at which handleOffer, handleAnswer and handleIceCandidate are
\* suspended
HandlerAwaits ==
  {"handleOffer.setRemoteDescription", "handleOffer.createAnswer",
   "handleAnswer.setRemoteDescription", "handleIceCandidate"}

\* C31: a handler (or the drain loop that awaits it) that resumes after
\* resetConnections closed its connection while it was suspended does
\* nothing: when the orchestrator is in its reset state and the connection
\* of the resuming handler was closed by the step before, the resumption
\* sends nothing, changes no connection, hands no further message of the
\* drain to the handler and leaves the orchestrator in its reset state.
C31_ResumeAfterResetDoesNothing ==
  [][(/\ step'.type \in HandlerAwaits
      /\ step'.pc \in hook.closedNow
      /\ ResetState(hook)) =>
       /\ hook'.out = <<>>
       /\ hook'.pcs = hook.pcs
       /\ hook'.handled = hook.handled
       /\ ResetState(hook')]_allVars

\* the answers among the messages a step sent
Answers(out) == SelectSeq(out, LAMBDA m : m.type = "answer")

\* C32: a client that receives an offer for its connection applies it as
\* remote description and, in the same step, applies every candidate
\* buffered for the host and empties that buffer, without sending anything;
\* the step after it sets the answer as local description and sends exactly
\* one answer, addressed to the sender of the offer and carrying the code of
\* the joined session; no other step sends an answer, and none is sent for a
\* connection without remote description; an offer that arrives for an open
\* connection is taken up by handleOffer or waits for the handler.
C32_OfferIsAnswered ==
  [][~isHost =>
       /\ (step'.type = "handleOffer.setRemoteDescription"
             /\ ~hook.pcs[step'.pc].closed) =>
            /\ hook'.pcs[step'.pc].remoteDescription
            /\ hook'.pcs[step'.pc].added =
                 hook.pcs[step'.pc].added \o hook.pendingIceCandidates[host]
            /\ hook'.pendingIceCandidates[host] = <<>>
            /\ hook'.out = <<>>
       /\ (step'.type = "handleOffer.createAnswer"
             /\ ~hook.pcs[step'.pc].closed) =>
            /\ hook.pcs[step'.pc].remoteDescription
            /\ hook'.pcs[step'.pc].localDescription
            /\ hook'.out = <<[type |-> "answer", sessionId |-> joinCode,
                              targetId |-> step'.data.senderId]>>
       /\ Answers(hook'.out) /= <<>> => step'.type = "handleOffer.createAnswer"
       /\ (step'.type = "message" /\ step'.data.type = "offer"
             /\ PcOf(hook, host) /= 0) =>
            \/ \E i \in 1..Len(hook'.tasks) :
                 /\ hook'.tasks[i].op = "handleOffer.setRemoteDescription"
                 /\ hook'.tasks[i].data = step'.data
            \/ Occurrences(Waiting(hook'), step'.data.id) > 0]_allVars

\* about the signaling connection
\* the sockets of the provider that are neither closing nor closed
LiveSockets(p) ==
  {s \in 1..Len(p.sockets) : p.sockets[s].readyState \in {"CONNECTING", "OPEN"}}

\* C33: a close event with code 1006 or 1001 sets exactly one reconnect
\* timer, for the URL of the socket that closed, and keeps its id in
\* reconnectTimer; a close event with any other code sets none; the timer
\* that fires connects to the URL it was set for; after a socket opened no
\* reconnect timer is pending and reconnectTimer is null; and at any time at
\* most one socket of the provider is connecting or open.
C33_ReconnectOnAbnormalClose ==
  [][/\ provider'.last.type = "close" =>
          LET s == provider'.last.socket
          IN IF provider'.last.code \in {1006, 1001}
             THEN /\ Len(provider'.timers) = Len(provider.timers) + 1
                  /\ SubSeq(provider'.timers, 1, Len(provider.timers)) = provider.timers
                  /\ provider'.timers[Len(provider'.timers)].url = provider.sockets[s].url
                  /\ provider'.timers[Len(provider'.timers)].id = provider'.reconnectTimer
                  /\ \A i \in 1..Len(provider.timers) :
                       provider.timers[i].id /= provider'.reconnectTimer
             ELSE /\ provider'.timers = provider.timers
                  /\ provider'.reconnectTimer = provider.reconnectTimer
     /\ provider'.last.type = "timer" =>
          /\ provider.timers /= <<>>
          /\ provider'.sockets[provider'.last.socket].url = Head(provider.timers).url
          /\ provider'.timers = Tail(provider.timers)
     /\ provider'.last.type = "open" =>
          /\ provider'.timers = <<>>
          /\ provider'.reconnectTimer = 0
     /\ Cardinality(LiveSockets(provider')) <= 1]_allVars

\* the socket of the second mount opened while the reconnect timer set by
\* the close of the first socket was pending: the timer was set after the
\* remount, did not fire (there is no third socket) and is not pending
C33_Witness ==
  /\ provider.phase = "remounted"
  /\ provider.last.type = "open"
  /\ provider.last.socket = 2
  /\ Len(provider.sockets) = 2
  /\ provider.sockets[1].readyState = "CLOSED"
  /\ provider.timerIds = 1
  /\ provider.timers = <<>>

\* C34: a close event of a socket that is not the one wsRef holds sets no
\* reconnect timer; once the provider has disconnected no socket is made any
\* more; and no step closes and replaces an open socket that wsRef holds
\* because of the close of an earlier socket (only the remount of the
\* provider replaces an open socket).
C34_StaleCloseIsIgnored ==
  [][/\ (provider'.last.type = "close"
           /\ provider'.last.socket /= provider.wsRef) =>
          provider'.timers = provider.timers
     /\ provider.phase = "gone" =>
          Len(provider'.sockets) = Len(provider.sockets)
     /\ (provider.wsRef /= 0 /\ provider'.wsRef /= provider.wsRef
           /\ provider.sockets[provider.wsRef].readyState = "OPEN") =>
          provider'.last.type \in {"remount", "disconnect"}]_allVars

\* about the host with the registry
\* nothing is on its way between the host and the registry and no call of
\* the hook is suspended
Quiescent ==
  /\ page.toHost = <<>>
  /\ page.toRegistry = <<>>
  /\ hook.tasks = <<>>
\* the ids in a list of the hook
ListedIds(list) == {list[i].id : i \in 1..Len(list)}
\* the sessions of the registry whose host is the host's transport
HostSessionIds == {s \in DOMAIN sessions : sessions[s].hostWs = HostWs}

\* C35: once every message in flight is delivered, the pendingClients list
\* of the host holds exactly the ids that are pending in the registry for
\* the host's session; a client the host rejected is not in the list.
C35_PendingListsAgree ==
  Quiescent =>
    \A s \in HostSessionIds : ListedIds(hook.pendingClients) = PendingIds(s)

\* C36: once every message in flight is delivered, every target the host
\* has a connection for in its map is an approved client of the host's
\* session in the registry; the host has no connection for a client whose
\* approval the registry did not carry out.
C36_ConnectionsAreApproved ==
  Quiescent =>
    \A s \in HostSessionIds : DOMAIN hook.peerConnectionsRef \subseteq ApprovedIds(s)

\* C37: no approved client waits for an offer for ever: once every message
\* in flight is delivered and the host can no longer approve the client
\* (it is not in the host's pending list), the registry has forwarded an
\* offer of the host to every transport that is an approved client of the
\* host's session, whether a capture source was selected when the host
\* approved or not.
C37_ApprovedClientGetsOffer ==
  Quiescent =>
    \A s \in HostSessionIds :
      \A c \in ApprovedIds(s) \ ListedIds(hook.pendingClients) :
        sessions[s].approvedClients[c] \in page.offered

\* C38: when the host revokes an approved client p of its session and the
\* registry has handled the peer-disconnected message the host page sends
\* for p, the registry no longer has p among the approved clients of the
\* session, so it relays nothing more for p.
C38_RevokedPeerIsNotApproved ==
  [][\A ws \in Transports, data \in PeerDisconnectedMessages :
       (/\ Unhandled(ws, data)
        /\ Has(sessions, data.sessionId)
        /\ sessions[data.sessionId].hostWs = ws
        /\ Has(sessions[data.sessionId].approvedClients, data.clientId))
       => /\ Has(sessions', data.sessionId)
          /\ ~Has(sessions'[data.sessionId].approvedClients, data.clientId)]_allVars

\* C39: in every session, every approved entry clientId -> transport names a
\* transport whose stored client id is that clientId, after any sequence of
\* joins and approvals, a transport's repeated join-session included.
C39_ApprovedEntryMatchesTransport ==
  \A s \in DOMAIN sessions :
    \A c \in DOMAIN sessions[s].approvedClients :
      wsClientId[sessions[s].approvedClients[c]] = c
====
